---- MODULE Spec2Model ----
(***************************************************************************)
(* cvmi: command-line interpretation (parseServeArgs, parseUseArgs, main)  *)
(* and configuration resolution (loadConfigFromEnv, mergeConfigs,          *)
(* loadConfig, getServeConfig, getUseConfig).                              *)
(*                                                                         *)
(* JavaScript strings are sequences of one-character strings, so that      *)
(* startsWith, split, trim and toLowerCase are computed and not assumed.   *)
(* An optional value (T | undefined) is a sequence of length at most one:  *)
(* Undefined is <<>> and Some(v) is <<v>>.                                 *)
(***************************************************************************)
EXTENDS Integers, Sequences, FiniteSets, TLC

VARIABLES
    pc,          \* position of the process: see the actions
    command,     \* args[0] of main: "serve" or "use" ("" when loadConfig is called directly)
    restArgs,    \* args.slice(1) of main
    i,           \* loop index of parseServeArgs / parseUseArgs (1-based)
    parsed,      \* `result` of parseServeArgs / parseUseArgs
    exitCode,    \* status passed to process.exit, or the status of a normal return; NoExit while running
    stdout,      \* what was printed: sequence of event names
    effects,     \* side-effecting operations performed so far
    env,         \* process.env snapshot read by loadConfigFromEnv
    files,       \* parsed content of the three config files as loadConfigFromFile returns it
    cliFlags,    \* first argument of loadConfig
    customPath,  \* second argument of loadConfig (Undefined or Some(path))
    config,      \* result of loadConfig
    resolved,    \* result of getServeConfig / getUseConfig
    stderr,      \* what console.warn printed: sequence of [value, context]
    target,      \* serve(): `target` (Undefined or Some(text))
    targetArgs,  \* serve(): `targetArgs`
    gateway,     \* serve(): the MCP transport the gateway was created with (Undefined before)
    scan,        \* splitCommandString: its parameter and locals [input, s, i, cur, quote, out]
    modeInput,   \* parseEncryptionMode: its parameters [value, context]
    mode,        \* parseEncryptionMode: its return value
    norm,        \* normalizeCommandAndArgs: its parameters and return value [command, args, result]
    proxy,       \* use(): the options the proxy was created with (Undefined before)
    shutdown     \* signal handling: [handler, listeners, signals, stopCalls, stopsDone]

vars == <<pc, command, restArgs, i, parsed, exitCode, stdout, effects,
          env, files, cliFlags, customPath, config, resolved,
          stderr, target, targetArgs, gateway, scan, modeInput, mode,
          norm, proxy, shutdown>>

\* the state of serve() after the configuration is resolved
gatewayVars == <<target, targetArgs, gateway, proxy>>

\* the state of the functions that are also called on their own
callVars == <<scan, modeInput, mode, norm, shutdown>>

(***************************************************************************)
(* Bounds                                                                  *)
(***************************************************************************)
MaxArgs == 3

MaxSettings == 3

MaxLen == 5

MaxSignals == 3

(***************************************************************************)
(* Optional values and string helpers                                      *)
(***************************************************************************)
Undefined == <<>>

Some(v) == <<v>>

NoExit == -1

\* splitCommandString is not running
NoScan == [input |-> <<>>, s |-> <<>>, i |-> 0, cur |-> <<>>, quote |-> "null", out |-> <<>>]

\* parseEncryptionMode is not running
NoModeInput == [value |-> Undefined, context |-> ""]

\* normalizeCommandAndArgs is not running
NoNorm == [command |-> <<>>, args |-> <<>>, result |-> <<>>]

\* no signal listener installed, no signal delivered, stop() never called
NoShutdown ==
    [handler |-> "none", listeners |-> {}, signals |-> <<>>, stopCalls |-> 0, stopsDone |-> 0]

StartsWith(s, prefix) ==
    /\ Len(s) >= Len(prefix)
    /\ SubSeq(s, 1, Len(prefix)) = prefix

\* Array.prototype.indexOf, 1-based; 0 stands for JavaScript's -1.
IndexOf(arr, x) ==
    IF \E k \in 1..Len(arr) : arr[k] = x
    THEN CHOOSE k \in 1..Len(arr) : arr[k] = x /\ \A j \in 1..(k - 1) : arr[j] # x
    ELSE 0

Includes(arr, x) == \E k \in 1..Len(arr) : arr[k] = x

WhitespaceChars == {" ", "\t", "\n", "\r"}

RECURSIVE TrimStart(_)
TrimStart(s) ==
    IF s # <<>> /\ Head(s) \in WhitespaceChars THEN TrimStart(Tail(s)) ELSE s

RECURSIVE TrimEnd(_)
TrimEnd(s) ==
    IF s # <<>> /\ s[Len(s)] \in WhitespaceChars
    THEN TrimEnd(SubSeq(s, 1, Len(s) - 1))
    ELSE s

Trim(s) == TrimEnd(TrimStart(s))

\* String.prototype.split(',') : always at least one piece.
RECURSIVE SplitComma(_, _)
SplitComma(s, cur) ==
    IF s = <<>> THEN <<cur>>
    ELSE IF Head(s) = "," THEN <<cur>> \o SplitComma(Tail(s), <<>>)
    ELSE SplitComma(Tail(s), Append(cur, Head(s)))

\* value.split(',').map((r) => r.trim())
SplitRelays(value) ==
    LET pieces == SplitComma(value, <<>>)
    IN  [k \in 1..Len(pieces) |-> Trim(pieces[k])]

UpperChars == <<"A", "B", "C", "D", "E", "F", "G", "H", "I", "J", "K", "L", "M",
                "N", "O", "P", "Q", "R", "S", "T", "U", "V", "W", "X", "Y", "Z">>

LowerChars == <<"a", "b", "c", "d", "e", "f", "g", "h", "i", "j", "k", "l", "m",
                "n", "o", "p", "q", "r", "s", "t", "u", "v", "w", "x", "y", "z">>

ToLowerChar(c) ==
    IF \E k \in 1..Len(UpperChars) : UpperChars[k] = c
    THEN LowerChars[CHOOSE k \in 1..Len(UpperChars) : UpperChars[k] = c]
    ELSE c

ToLowerCase(s) == [k \in 1..Len(s) |-> ToLowerChar(s[k])]

(***************************************************************************)
(* String literals of the source                                           *)
(***************************************************************************)
FlagVerbose == <<"-", "-", "v", "e", "r", "b", "o", "s", "e">>

FlagPublic == <<"-", "-", "p", "u", "b", "l", "i", "c">>

FlagPrivateKey == <<"-", "-", "p", "r", "i", "v", "a", "t", "e", "-", "k", "e", "y">>

FlagRelays == <<"-", "-", "r", "e", "l", "a", "y", "s">>

FlagEncryptionMode == <<"-", "-", "e", "n", "c", "r", "y", "p", "t", "i", "o", "n", "-", "m", "o", "d", "e">>

FlagConfig == <<"-", "-", "c", "o", "n", "f", "i", "g">>

FlagServerPubkey == <<"-", "-", "s", "e", "r", "v", "e", "r", "-", "p", "u", "b", "k", "e", "y">>

FlagHelp == <<"-", "-", "h", "e", "l", "p">>

FlagH == <<"-", "h">>

Separator == <<"-", "-">>

DashDash == <<"-", "-">>

Dash == <<"-">>

MissingValueSuffix == <<" ", "(", "m", "i", "s", "s", "i", "n", "g", " ", "v", "a", "l", "u", "e", ")">>

StrRequired == <<"r", "e", "q", "u", "i", "r", "e", "d">>

StrDisabled == <<"d", "i", "s", "a", "b", "l", "e", "d">>

StrOptional == <<"o", "p", "t", "i", "o", "n", "a", "l">>

StrTrue == <<"t", "r", "u", "e">>

(***************************************************************************)
(* Input tokens the model draws command lines from                         *)
(***************************************************************************)
TokBogus == <<"-", "-", "b", "o", "g", "u", "s">>

TokY == <<"-", "y">>

TokNpx == <<"n", "p", "x">>

TokRelayList == <<"r", ",", " ", "s">>

TokUrl == <<"h", "t", "t", "p", ":", "/", "/", "h">>

ServeTokens ==
    {FlagVerbose, FlagPublic, FlagPrivateKey, FlagRelays, FlagEncryptionMode,
     FlagConfig, FlagHelp, FlagH, Separator, TokBogus, TokY, TokNpx, TokRelayList,
     TokUrl}

UseTokens ==
    {FlagVerbose, FlagServerPubkey, FlagPrivateKey, FlagRelays, FlagEncryptionMode,
     FlagConfig, FlagHelp, FlagH, Separator, TokBogus, TokY, TokNpx, TokRelayList}

ArgLists(tokens) == UNION {[1..n -> tokens] : n \in 0..MaxArgs}

(***************************************************************************)
(* parseEncryptionMode (config/loader.ts)                                  *)
(***************************************************************************)
\* The members of the SDK's EncryptionMode are the texts the JSON files use.
ModeOptional == StrOptional

ModeRequired == StrRequired

ModeDisabled == StrDisabled

\* parseEncryptionMode without toLowerCase: only the lower-case names match.
parseEncryptionModeCaseSensitive(value) ==
    IF value = Undefined \/ value[1] = <<>> THEN Undefined
    ELSE IF value[1] = StrRequired THEN Some(ModeRequired)
    ELSE IF value[1] = StrDisabled THEN Some(ModeDisabled)
    ELSE Some(ModeOptional)

\* value is an optional string; the result is an optional EncryptionMode.
parseEncryptionMode(value) ==
    IF value = Undefined \/ value[1] = <<>> THEN Undefined
    ELSE LET normalized == ToLowerCase(value[1])
         IN  IF normalized = StrRequired THEN Some(ModeRequired)
             ELSE IF normalized = StrDisabled THEN Some(ModeDisabled)
             ELSE IF normalized = StrOptional THEN Some(ModeOptional)
             ELSE Some(ModeOptional)

\* What parseEncryptionMode prints with console.warn: nothing, or one
\* warning naming the rejected text and the context.
parseEncryptionModeWarnings(value, context) ==
    IF value = Undefined \/ value[1] = <<>> THEN <<>>
    ELSE LET normalized == ToLowerCase(value[1])
         IN  IF normalized = StrRequired THEN <<>>
             ELSE IF normalized = StrDisabled THEN <<>>
             ELSE IF normalized = StrOptional THEN <<>>
             ELSE <<[value |-> value[1], context |-> context]>>

CliContext == "CLI flag --encryption-mode"

EnvContext == "env var"

(***************************************************************************)
(* parseServeArgs (cli.ts)                                                 *)
(***************************************************************************)
\* consumeValue without the roll-back of the index (`i--` left out).
consumeValueNoRollback(args, idx, flagName) ==
    LET nextIndex == idx + 1
        value == IF nextIndex <= Len(args) THEN Some(args[nextIndex]) ELSE Undefined
        missing == value = Undefined \/ StartsWith(value[1], DashDash)
    IN  [value |-> IF missing THEN Undefined ELSE value,
         i     |-> nextIndex,
         errs  |-> IF missing THEN <<flagName \o MissingValueSuffix>> ELSE <<>>]

\* consumeValue without the test for a following flag: any next token is the value.
consumeValueAnyToken(args, idx, flagName) ==
    LET nextIndex == idx + 1
        value == IF nextIndex <= Len(args) THEN Some(args[nextIndex]) ELSE Undefined
    IN  [value |-> value,
         i     |-> nextIndex,
         errs  |-> IF value = Undefined THEN <<flagName \o MissingValueSuffix>> ELSE <<>>]

\* The closure consumeValue: the optional value, the loop index it leaves
\* behind and the unknownFlags entries it pushes.
consumeValue(args, idx, flagName) ==
    LET nextIndex == idx + 1
        value == IF nextIndex <= Len(args) THEN Some(args[nextIndex]) ELSE Undefined
        isFlag == value # Undefined /\ StartsWith(value[1], DashDash)
        missing == value = Undefined \/ isFlag
    IN  [value |-> IF missing THEN Undefined ELSE value,
         i     |-> IF isFlag THEN nextIndex - 1 ELSE nextIndex,
         errs  |-> IF missing THEN <<flagName \o MissingValueSuffix>> ELSE <<>>]

serveSeparatorIndex(args) == IndexOf(args, Separator)

beforeSeparator(args) ==
    IF serveSeparatorIndex(args) = 0 THEN args
    ELSE SubSeq(args, 1, serveSeparatorIndex(args) - 1)

\* args.slice(separatorIndex): the separator itself is kept.
afterSeparatorFromSeparator(args) ==
    IF serveSeparatorIndex(args) = 0 THEN <<>>
    ELSE SubSeq(args, serveSeparatorIndex(args), Len(args))

afterSeparator(args) ==
    IF serveSeparatorIndex(args) = 0 THEN <<>>
    ELSE SubSeq(args, serveSeparatorIndex(args) + 1, Len(args))

ServeInitResult(args) ==
    [serverArgs   |-> afterSeparator(args),
     verbose      |-> FALSE,
     privateKey   |-> Undefined,
     relays       |-> Undefined,
     public       |-> FALSE,
     encryption   |-> Undefined,
     config       |-> Undefined,
     unknownFlags |-> <<>>]

\* The final else branch without the strict mode: always a server argument.
ServePositionalLenient(args, r, arg) ==
    [r EXCEPT !.serverArgs = Append(@, arg)]

\* The final else branch without the lenient mode: always reported.
ServePositionalStrict(args, r, arg) ==
    [r EXCEPT !.unknownFlags = Append(@, arg)]

\* The final else branch of the loop: a token that is no double-dash flag.
ServePositional(args, r, arg) ==
    IF serveSeparatorIndex(args) # 0
    THEN [r EXCEPT !.unknownFlags = Append(@, arg)]
    ELSE [r EXCEPT !.serverArgs = Append(@, arg)]

\* One iteration of the for loop of parseServeArgs, the i++ included.
\* st is [i, result].
ServeIteration(args, st) ==
    LET before == beforeSeparator(args)
        arg == before[st.i]
        r == st.result
        cv(flagName) == consumeValue(before, st.i, flagName)
        withValue(flagName, field, val) ==
            [i |-> cv(flagName).i + 1,
             result |-> [r EXCEPT ![field] = val,
                                  !.unknownFlags = @ \o cv(flagName).errs]]
    IN  IF arg = FlagVerbose THEN
            [i |-> st.i + 1, result |-> [r EXCEPT !.verbose = TRUE]]
        ELSE IF arg = FlagPublic THEN
            [i |-> st.i + 1, result |-> [r EXCEPT !.public = TRUE]]
        ELSE IF arg = FlagPrivateKey THEN
            withValue(FlagPrivateKey, "privateKey", cv(FlagPrivateKey).value)
        ELSE IF arg = FlagRelays THEN
            LET value == cv(FlagRelays).value
            IN  withValue(FlagRelays, "relays",
                          IF value # Undefined /\ value[1] # <<>>
                          THEN Some(SplitRelays(value[1])) ELSE Undefined)
        ELSE IF arg = FlagEncryptionMode THEN
            withValue(FlagEncryptionMode, "encryption",
                      parseEncryptionMode(cv(FlagEncryptionMode).value))
        ELSE IF arg = FlagConfig THEN
            withValue(FlagConfig, "config", cv(FlagConfig).value)
        ELSE IF arg = FlagHelp \/ arg = FlagH THEN
            [i |-> st.i + 1, result |-> r]
        ELSE IF StartsWith(arg, DashDash) THEN
            [i |-> st.i + 1, result |-> [r EXCEPT !.unknownFlags = Append(@, arg)]]
        ELSE
            [i |-> st.i + 1, result |-> ServePositional(args, r, arg)]

\* The warnings the iteration at index idx prints.
ServeIterationWarnings(args, idx) ==
    IF beforeSeparator(args)[idx] = FlagEncryptionMode
    THEN parseEncryptionModeWarnings(
             consumeValue(beforeSeparator(args), idx, FlagEncryptionMode).value, CliContext)
    ELSE <<>>

RECURSIVE ServeLoop(_, _)
ServeLoop(args, st) ==
    IF st.i <= Len(beforeSeparator(args))
    THEN ServeLoop(args, ServeIteration(args, st))
    ELSE st.result

parseServeArgs(args) == ServeLoop(args, [i |-> 1, result |-> ServeInitResult(args)])

(***************************************************************************)
(* parseUseArgs (cli.ts)                                                   *)
(***************************************************************************)
UseInitResult ==
    [serverPubkey |-> Undefined,
     verbose      |-> FALSE,
     privateKey   |-> Undefined,
     relays       |-> Undefined,
     encryption   |-> Undefined,
     config       |-> Undefined,
     unknownFlags |-> <<>>]

\* The flags of the if-chain of parseUseArgs, and those that take a value.
UseRecognizedFlags ==
    {FlagVerbose, FlagPrivateKey, FlagRelays, FlagEncryptionMode, FlagServerPubkey,
     FlagConfig, FlagHelp, FlagH}

UseValueFlags ==
    {FlagPrivateKey, FlagRelays, FlagEncryptionMode, FlagServerPubkey, FlagConfig}

\* The final else branch with a plain assignment: the last positional wins.
UsePositionalLast(r, arg) ==
    [r EXCEPT !.serverPubkey = Some(arg)]

\* The final else branch of the loop: result.serverPubkey ?? arg
UsePositional(r, arg) ==
    [r EXCEPT !.serverPubkey = IF @ # Undefined THEN @ ELSE Some(arg)]

UseIteration(args, st) ==
    LET arg == args[st.i]
        r == st.result
        cv(flagName) == consumeValue(args, st.i, flagName)
        withValue(flagName, field, val) ==
            [i |-> cv(flagName).i + 1,
             result |-> [r EXCEPT ![field] = val,
                                  !.unknownFlags = @ \o cv(flagName).errs]]
    IN  IF arg = FlagVerbose THEN
            [i |-> st.i + 1, result |-> [r EXCEPT !.verbose = TRUE]]
        ELSE IF arg = FlagPrivateKey THEN
            withValue(FlagPrivateKey, "privateKey", cv(FlagPrivateKey).value)
        ELSE IF arg = FlagRelays THEN
            LET value == cv(FlagRelays).value
            IN  withValue(FlagRelays, "relays",
                          IF value # Undefined /\ value[1] # <<>>
                          THEN Some(SplitRelays(value[1])) ELSE Undefined)
        ELSE IF arg = FlagEncryptionMode THEN
            withValue(FlagEncryptionMode, "encryption",
                      parseEncryptionMode(cv(FlagEncryptionMode).value))
        ELSE IF arg = FlagServerPubkey THEN
            withValue(FlagServerPubkey, "serverPubkey", cv(FlagServerPubkey).value)
        ELSE IF arg = FlagConfig THEN
            withValue(FlagConfig, "config", cv(FlagConfig).value)
        ELSE IF arg = FlagHelp \/ arg = FlagH THEN
            [i |-> st.i + 1, result |-> r]
        ELSE IF StartsWith(arg, Dash) THEN
            [i |-> st.i + 1, result |-> [r EXCEPT !.unknownFlags = Append(@, arg)]]
        ELSE
            [i |-> st.i + 1, result |-> UsePositional(r, arg)]

\* The warnings the iteration at index idx prints.
UseIterationWarnings(args, idx) ==
    IF args[idx] = FlagEncryptionMode
    THEN parseEncryptionModeWarnings(consumeValue(args, idx, FlagEncryptionMode).value,
                                     CliContext)
    ELSE <<>>

RECURSIVE UseLoop(_, _)
UseLoop(args, st) ==
    IF st.i <= Len(args)
    THEN UseLoop(args, UseIteration(args, st))
    ELSE st.result

parseUseArgs(args) == UseLoop(args, [i |-> 1, result |-> UseInitResult])

(***************************************************************************)
(* Configuration sources (config/loader.ts)                                *)
(*                                                                         *)
(* A Partial<ServeConfig> / Partial<UseConfig> is a function from the keys *)
(* it has to optional values: a key can be missing, or present with the    *)
(* value undefined (as in the cliFlags object literal of serve()).         *)
(* A Partial<CvmiConfig> is [serve, use], each an optional partial.        *)
(***************************************************************************)
EmptyObject == [k \in {} |-> Undefined]

EmptyCvmiConfig == [serve |-> Undefined, use |-> Undefined]

\* obj[key] = value
SetKey(obj, key, value) ==
    [k \in DOMAIN obj \cup {key} |-> IF k = key THEN value ELSE obj[k]]

\* obj.key
GetKey(obj, key) == IF key \in DOMAIN obj THEN obj[key] ELSE Undefined

\* JavaScript truthiness of an optional string
Truthy(x) == x # Undefined /\ x[1] # <<>>

\* a || b on optional strings
Or(a, b) == IF Truthy(a) THEN a ELSE b

\* config.serve || {}
OrEmptyObject(ns) == IF ns # Undefined THEN ns[1] ELSE EmptyObject

EnvNames ==
    {"CVMI_GATEWAY_PRIVATE_KEY", "CVMI_SERVE_PRIVATE_KEY",
     "CVMI_GATEWAY_RELAYS", "CVMI_SERVE_RELAYS",
     "CVMI_GATEWAY_PUBLIC", "CVMI_SERVE_PUBLIC",
     "CVMI_GATEWAY_ENCRYPTION", "CVMI_SERVE_ENCRYPTION",
     "CVMI_PROXY_PRIVATE_KEY", "CVMI_USE_PRIVATE_KEY",
     "CVMI_PROXY_RELAYS", "CVMI_USE_RELAYS",
     "CVMI_PROXY_SERVER_PUBKEY", "CVMI_USE_SERVER_PUBKEY",
     "CVMI_PROXY_ENCRYPTION", "CVMI_USE_ENCRYPTION"}

EmptyEnv == [n \in EnvNames |-> Undefined]

loadConfigFromEnv(e) ==
    LET servePrivateKey == Or(e["CVMI_GATEWAY_PRIVATE_KEY"], e["CVMI_SERVE_PRIVATE_KEY"])
        serveRelays     == Or(e["CVMI_GATEWAY_RELAYS"], e["CVMI_SERVE_RELAYS"])
        servePublic     == Or(e["CVMI_GATEWAY_PUBLIC"], e["CVMI_SERVE_PUBLIC"])
        serveEncryption == Or(e["CVMI_GATEWAY_ENCRYPTION"], e["CVMI_SERVE_ENCRYPTION"])
        usePrivateKey   == Or(e["CVMI_PROXY_PRIVATE_KEY"], e["CVMI_USE_PRIVATE_KEY"])
        useRelays       == Or(e["CVMI_PROXY_RELAYS"], e["CVMI_USE_RELAYS"])
        useServerPubkey == Or(e["CVMI_PROXY_SERVER_PUBKEY"], e["CVMI_USE_SERVER_PUBKEY"])
        useEncryption   == Or(e["CVMI_PROXY_ENCRYPTION"], e["CVMI_USE_ENCRYPTION"])
        s1 == IF Truthy(servePrivateKey)
              THEN Some(SetKey(EmptyObject, "privateKey", servePrivateKey))
              ELSE Undefined
        s2 == IF Truthy(serveRelays)
              THEN Some(SetKey(OrEmptyObject(s1), "relays", Some(SplitRelays(serveRelays[1]))))
              ELSE s1
        s3 == IF Truthy(servePublic)
              THEN Some(SetKey(OrEmptyObject(s2), "public", Some(servePublic[1] = StrTrue)))
              ELSE s2
        s4 == IF Truthy(serveEncryption)
              THEN Some(SetKey(OrEmptyObject(s3), "encryption", parseEncryptionMode(serveEncryption)))
              ELSE s3
        u1 == IF Truthy(usePrivateKey)
              THEN Some(SetKey(EmptyObject, "privateKey", usePrivateKey))
              ELSE Undefined
        u2 == IF Truthy(useRelays)
              THEN Some(SetKey(OrEmptyObject(u1), "relays", Some(SplitRelays(useRelays[1]))))
              ELSE u1
        u3 == IF Truthy(useServerPubkey)
              THEN Some(SetKey(OrEmptyObject(u2), "serverPubkey", useServerPubkey))
              ELSE u2
        u4 == IF Truthy(useEncryption)
              THEN Some(SetKey(OrEmptyObject(u3), "encryption", parseEncryptionMode(useEncryption)))
              ELSE u3
    IN  [serve |-> s4, use |-> u4]

\* The warnings loadConfigFromEnv prints, in order.
loadConfigFromEnvWarnings(e) ==
    parseEncryptionModeWarnings(
        Or(e["CVMI_GATEWAY_ENCRYPTION"], e["CVMI_SERVE_ENCRYPTION"]), EnvContext)
    \o parseEncryptionModeWarnings(
        Or(e["CVMI_PROXY_ENCRYPTION"], e["CVMI_USE_ENCRYPTION"]), EnvContext)

\* loadConfigFromFile without the failure of JSON.parse: the text of a file
\* that is not valid JSON is used as far as it can be read.
loadConfigFromFileUnchecked(file) ==
    IF ~file.exists THEN EmptyCvmiConfig
    ELSE IF ~file.readable THEN EmptyCvmiConfig
    ELSE file.content

\* A config file as the file system holds it: whether access() finds it
\* (exists), whether readFile() returns its text (readable), whether
\* JSON.parse accepts the text (valid), the object the text describes
\* (content), and the places of the text that hold the JSON value null
\* (nulls: "top" for the whole text, "serve" and "use" for the members; the
\* content has nothing at these places).
\* Each of the three calls throws otherwise, and the catch returns {}.
loadConfigFromFile(file) ==
    IF ~file.exists THEN EmptyCvmiConfig
    ELSE IF ~file.readable THEN EmptyCvmiConfig
    ELSE IF ~file.valid THEN EmptyCvmiConfig
    ELSE file.content

\* The reduce callback assigning only the keys acc does not have yet.
MergeIntoKeepFirst(acc, src) ==
    LET defined == {k \in DOMAIN src : src[k] # Undefined}
    IN  [k \in DOMAIN acc \cup defined |-> IF k \in DOMAIN acc THEN acc[k] ELSE src[k]]

\* The body of the reduce callback: every entry of src whose value is not
\* undefined is assigned into acc.
MergeInto(acc, src) ==
    LET defined == {k \in DOMAIN src : src[k] # Undefined}
    IN  [k \in DOMAIN acc \cup defined |-> IF k \in defined THEN src[k] ELSE acc[k]]

RECURSIVE Reduce(_, _)
Reduce(acc, sources) ==
    IF sources = <<>> THEN acc
    ELSE Reduce(IF Head(sources) = Undefined THEN acc ELSE MergeInto(acc, Head(sources)[1]),
                Tail(sources))

\* sources: lowest priority first, each an optional partial.
mergeConfigs(sources) == Reduce(EmptyObject, sources)

loadConfig(cli, customConfigPath, e, fs) ==
    LET envConfig     == loadConfigFromEnv(e)
        globalConfig  == loadConfigFromFile(fs.global)
        projectConfig == loadConfigFromFile(fs.project)
        customConfig  == IF Truthy(customConfigPath)
                         THEN loadConfigFromFile(fs.custom)
                         ELSE EmptyCvmiConfig
    IN  [serve |-> mergeConfigs(<<envConfig.serve, globalConfig.serve, projectConfig.serve,
                                  customConfig.serve, cli.serve>>),
         use   |-> mergeConfigs(<<envConfig.use, globalConfig.use, projectConfig.use,
                                  customConfig.use, cli.use>>)]

\* TRUE when loadConfig raises a TypeError: JSON.parse returns null for the
\* text `null`, and the member reads globalConfig.serve etc. are then made
\* on null; a member that is null passes the `s !== undefined` filter of
\* mergeConfigs and Object.entries(null) throws.
loadConfigThrows(customConfigPath, fs) ==
    LET read == {fs.global, fs.project}
                    \cup (IF Truthy(customConfigPath) THEN {fs.custom} ELSE {})
    IN  \E f \in read : f.exists /\ f.readable /\ f.valid /\ f.nulls # {}

\* a ?? b on optional values
Coalesce(a, b) == IF a # Undefined THEN a ELSE b

DEFAULT_RELAYS ==
    << <<"w", "s", "s", ":", "/", "/", "r", "e", "l", "a", "y", ".", "c", "o", "n", "t", "e", "x", "t", "v", "m", ".", "o", "r", "g">>,
       <<"w", "s", "s", ":", "/", "/", "c", "v", "m", ".", "o", "t", "h", "e", "r", "s", "t", "u", "f", "f", ".", "a", "i">> >>

DEFAULT_ENCRYPTION == ModeOptional

\* getServeConfig with the relay default of serve(): an empty list is
\* replaced by the default list too.
getServeConfigRelaysOrDefault(cfg) ==
    [privateKey     |-> Coalesce(GetKey(cfg, "privateKey"), Some(<<>>)),
     relays         |-> IF GetKey(cfg, "relays") # Undefined /\ Len(GetKey(cfg, "relays")[1]) > 0
                        THEN GetKey(cfg, "relays") ELSE Some(DEFAULT_RELAYS),
     public         |-> Coalesce(GetKey(cfg, "public"), Some(FALSE)),
     allowedPubkeys |-> GetKey(cfg, "allowedPubkeys"),
     encryption     |-> Coalesce(GetKey(cfg, "encryption"), Some(DEFAULT_ENCRYPTION)),
     serverInfo     |-> GetKey(cfg, "serverInfo"),
     command        |-> GetKey(cfg, "command"),
     args           |-> GetKey(cfg, "args")]

\* getServeConfig(config) with the default cliFlags = {}
getServeConfig(cfg) ==
    [privateKey     |-> Coalesce(GetKey(cfg, "privateKey"), Some(<<>>)),
     relays         |-> Coalesce(GetKey(cfg, "relays"), Some(DEFAULT_RELAYS)),
     public         |-> Coalesce(GetKey(cfg, "public"), Some(FALSE)),
     allowedPubkeys |-> GetKey(cfg, "allowedPubkeys"),
     encryption     |-> Coalesce(GetKey(cfg, "encryption"), Some(DEFAULT_ENCRYPTION)),
     serverInfo     |-> GetKey(cfg, "serverInfo"),
     command        |-> GetKey(cfg, "command"),
     args           |-> GetKey(cfg, "args")]

getUseConfig(cfg) ==
    [privateKey   |-> Coalesce(GetKey(cfg, "privateKey"), Some(<<>>)),
     relays       |-> Coalesce(GetKey(cfg, "relays"), Some(DEFAULT_RELAYS)),
     serverPubkey |-> GetKey(cfg, "serverPubkey"),
     encryption   |-> Coalesce(GetKey(cfg, "encryption"), Some(DEFAULT_ENCRYPTION))]

(***************************************************************************)
(* normalizePrivateKey (utils/crypto.ts): whether it returns or throws     *)
(***************************************************************************)
HexChars == {"0", "1", "2", "3", "4", "5", "6", "7", "8", "9",
             "a", "b", "c", "d", "e", "f", "A", "B", "C", "D", "E", "F"}

HexPrefix == <<"0", "x">>

NsecPrefix == <<"n", "s", "e", "c">>

\* TRUE when normalizePrivateKey(input) returns; a key starting with nsec
\* is decoded by nostr-tools and is not part of the inputs drawn here.
normalizePrivateKeyAccepts(input) ==
    LET trimmed == Trim(input)
        hex == IF StartsWith(trimmed, HexPrefix) THEN SubSeq(trimmed, 3, Len(trimmed)) ELSE trimmed
    IN  /\ Len(trimmed) # 0
        /\ ~StartsWith(trimmed, NsecPrefix)
        /\ Len(hex) = 64
        /\ \A k \in 1..Len(hex) : hex[k] \in HexChars

(***************************************************************************)
(* splitCommandString (utils/command.ts)                                   *)
(*                                                                         *)
(* The scanner state is [input, s, i, cur, quote, out]: the parameter, the *)
(* trimmed text, the loop index (1-based), the token being built, the open *)
(* quote ("null", "single" or "double") and the tokens pushed so far.      *)
(***************************************************************************)
SingleQuote == "'"

DoubleQuote == "\""

Backslash == "\\"

\* /\s/.test(ch)
IsWhitespace(ch) == ch \in WhitespaceChars

\* push() without the length test: cur is appended to out even when empty
PushEvenEmpty(st) ==
    [st EXCEPT !.out = Append(@, st.cur), !.cur = <<>>]

\* push(): cur is appended to out when it is not empty, and reset
Push(st) ==
    [st EXCEPT !.out = IF Len(st.cur) > 0 THEN Append(@, st.cur) ELSE @,
               !.cur = <<>>]

\* while (i + 1 < s.length && /\s/.test(s[i + 1])) i++
RECURSIVE SkipWhitespace(_, _)
SkipWhitespace(str, idx) ==
    IF idx + 1 <= Len(str) /\ IsWhitespace(str[idx + 1])
    THEN SkipWhitespace(str, idx + 1)
    ELSE idx

\* The locals right before the for loop.
ScanStart(text) ==
    [input |-> text, s |-> Trim(text), i |-> 1, cur |-> <<>>, quote |-> "null", out |-> <<>>]

\* One iteration that drops the escaped character together with its backslash.
ScanIterationDropEscaped(st) ==
    LET ch == st.s[st.i]
    IN  IF st.quote = "null" /\ IsWhitespace(ch) THEN
            [Push(st) EXCEPT !.i = SkipWhitespace(st.s, st.i) + 1]
        ELSE IF st.quote = "null" /\ ch = SingleQuote THEN
            [st EXCEPT !.quote = "single", !.i = @ + 1]
        ELSE IF st.quote = "null" /\ ch = DoubleQuote THEN
            [st EXCEPT !.quote = "double", !.i = @ + 1]
        ELSE IF st.quote = "single" /\ ch = SingleQuote THEN
            [st EXCEPT !.quote = "null", !.i = @ + 1]
        ELSE IF st.quote = "double" /\ ch = DoubleQuote THEN
            [st EXCEPT !.quote = "null", !.i = @ + 1]
        ELSE IF ch = Backslash /\ st.i + 1 > Len(st.s) THEN
            [st EXCEPT !.cur = Append(@, ch), !.i = @ + 1]
        ELSE IF ch = Backslash /\ st.quote \in {"null", "double"} THEN
            [st EXCEPT !.i = @ + 2]
        ELSE
            [st EXCEPT !.cur = Append(@, ch), !.i = @ + 1]

\* One iteration with whitespace splitting inside quotes too.
ScanIterationSplitInQuotes(st) ==
    LET ch == st.s[st.i]
    IN  IF IsWhitespace(ch) THEN
            [Push(st) EXCEPT !.i = SkipWhitespace(st.s, st.i) + 1]
        ELSE IF st.quote = "null" /\ ch = SingleQuote THEN
            [st EXCEPT !.quote = "single", !.i = @ + 1]
        ELSE IF st.quote = "null" /\ ch = DoubleQuote THEN
            [st EXCEPT !.quote = "double", !.i = @ + 1]
        ELSE IF st.quote = "single" /\ ch = SingleQuote THEN
            [st EXCEPT !.quote = "null", !.i = @ + 1]
        ELSE IF st.quote = "double" /\ ch = DoubleQuote THEN
            [st EXCEPT !.quote = "null", !.i = @ + 1]
        ELSE IF ch = Backslash /\ st.i + 1 > Len(st.s) THEN
            [st EXCEPT !.cur = Append(@, ch), !.i = @ + 1]
        ELSE IF ch = Backslash /\ st.quote \in {"null", "double"} THEN
            [st EXCEPT !.cur = Append(@, st.s[st.i + 1]), !.i = @ + 2]
        ELSE
            [st EXCEPT !.cur = Append(@, ch), !.i = @ + 1]

\* One iteration of the for loop, the i++ included.
ScanIteration(st) ==
    LET ch == st.s[st.i]
    IN  IF st.quote = "null" /\ IsWhitespace(ch) THEN
            [Push(st) EXCEPT !.i = SkipWhitespace(st.s, st.i) + 1]
        ELSE IF st.quote = "null" /\ ch = SingleQuote THEN
            [st EXCEPT !.quote = "single", !.i = @ + 1]
        ELSE IF st.quote = "null" /\ ch = DoubleQuote THEN
            [st EXCEPT !.quote = "double", !.i = @ + 1]
        ELSE IF st.quote = "single" /\ ch = SingleQuote THEN
            [st EXCEPT !.quote = "null", !.i = @ + 1]
        ELSE IF st.quote = "double" /\ ch = DoubleQuote THEN
            [st EXCEPT !.quote = "null", !.i = @ + 1]
        ELSE IF ch = Backslash /\ st.i + 1 > Len(st.s) THEN
            [st EXCEPT !.cur = Append(@, ch), !.i = @ + 1]
        ELSE IF ch = Backslash /\ st.quote \in {"null", "double"} THEN
            [st EXCEPT !.cur = Append(@, st.s[st.i + 1]), !.i = @ + 2]
        ELSE
            [st EXCEPT !.cur = Append(@, ch), !.i = @ + 1]

RECURSIVE ScanLoop(_)
ScanLoop(st) == IF st.i <= Len(st.s) THEN ScanLoop(ScanIteration(st)) ELSE st

splitCommandString(text) ==
    IF Trim(text) = <<>> THEN <<>>
    ELSE Push(ScanLoop(ScanStart(text))).out

\* normalizeCommandAndArgs with the parts of the command put after args
normalizeCommandAndArgsPartsLast(cmd, args) ==
    LET parts == splitCommandString(cmd)
    IN  IF (\E k \in 1..Len(cmd) : IsWhitespace(cmd[k])) /\ Len(parts) > 0
        THEN [command |-> parts[1], args |-> args \o Tail(parts)]
        ELSE [command |-> cmd, args |-> args]

\* normalizeCommandAndArgs: a command containing whitespace is split and its
\* further parts are put in front of args
normalizeCommandAndArgs(cmd, args) ==
    LET parts == splitCommandString(cmd)
    IN  IF (\E k \in 1..Len(cmd) : IsWhitespace(cmd[k])) /\ Len(parts) > 0
        THEN [command |-> parts[1], args |-> Tail(parts) \o args]
        ELSE [command |-> cmd, args |-> args]

(***************************************************************************)
(* Inputs of a command-line run: environment and config files              *)
(***************************************************************************)
HexKey == [k \in 1..64 |-> "a"]

StrPk == <<"p", "k">>

MissingFile ==
    [exists |-> FALSE, readable |-> FALSE, valid |-> FALSE, nulls |-> {},
     content |-> EmptyCvmiConfig]

FileA ==
    [exists |-> TRUE, readable |-> TRUE, valid |-> TRUE, nulls |-> {},
     content |-> [serve |-> Some([public |-> Some(TRUE), command |-> Some(TokNpx),
                                  args |-> Some(<<TokY>>), relays |-> Some(<<>>)]),
                  use   |-> Some([serverPubkey |-> Some(StrPk), relays |-> Some(<<>>)])]]

FileB ==
    [exists |-> TRUE, readable |-> TRUE, valid |-> TRUE, nulls |-> {},
     content |-> [serve |-> Some([public |-> Some(FALSE), privateKey |-> Some(HexKey),
                                  url |-> Some(TokUrl)]),
                  use   |-> Some([privateKey |-> Some(HexKey)])]]

RunFiles == {MissingFile, FileA, FileB}

RunEnvs ==
    {EmptyEnv,
     [EmptyEnv EXCEPT !["CVMI_SERVE_PUBLIC"] = Some(StrTrue),
                      !["CVMI_USE_SERVER_PUBKEY"] = Some(StrPk)]}

(***************************************************************************)
(* main (cli.ts), serve (serve.ts), use (use.ts)                           *)
(***************************************************************************)
Init ==
    /\ pc = "main"
    /\ command \in {"serve", "use"}
    /\ restArgs \in ArgLists(IF command = "serve" THEN ServeTokens ELSE UseTokens)
    /\ i = 1
    /\ parsed = [unknownFlags |-> <<>>]
    /\ exitCode = NoExit
    /\ stdout = <<>>
    /\ effects = {}
    /\ env = EmptyEnv
    /\ files = [global |-> MissingFile, project |-> MissingFile, custom |-> MissingFile]
    /\ cliFlags = EmptyCvmiConfig
    /\ customPath = Undefined
    /\ config = [serve |-> EmptyObject, use |-> EmptyObject]
    /\ resolved = EmptyObject
    /\ stderr = <<>>
    /\ target = Undefined
    /\ targetArgs = <<>>
    /\ gateway = Undefined
    /\ proxy = Undefined
    /\ norm = NoNorm
    /\ shutdown = NoShutdown
    /\ scan = NoScan
    /\ modeInput = NoModeInput
    /\ mode = Undefined

\* The help check on the whole argument list, the part after `--` included.
serveShouldShowHelpAnywhere(args) ==
    Includes(args, FlagHelp) \/ Includes(args, FlagH)

serveShouldShowHelp(args) ==
    Includes(beforeSeparator(args), FlagHelp) \/ Includes(beforeSeparator(args), FlagH)

useShouldShowHelp(args) == Includes(args, FlagHelp) \/ Includes(args, FlagH)

\* case 'serve': the help check and the start of parseServeArgs
MainServe ==
    /\ pc = "main"
    /\ command = "serve"
    /\ IF serveShouldShowHelp(restArgs)
       THEN /\ stdout' = Append(stdout, "showServeHelp")
            /\ exitCode' = 0
            /\ pc' = "exited"
            /\ UNCHANGED <<i, parsed>>
       ELSE /\ parsed' = ServeInitResult(restArgs)
            /\ i' = 1
            /\ pc' = "parseServe"
            /\ UNCHANGED <<stdout, exitCode>>
    /\ UNCHANGED <<command, restArgs, effects, env, files, cliFlags, customPath, config, resolved>>
    /\ UNCHANGED <<stderr, gatewayVars, callVars>>

\* one iteration of the loop of parseServeArgs
ParseServeStep ==
    /\ pc = "parseServe"
    /\ i <= Len(beforeSeparator(restArgs))
    /\ LET st == ServeIteration(restArgs, [i |-> i, result |-> parsed])
       IN  /\ i' = st.i
           /\ parsed' = st.result
    /\ stderr' = stderr \o ServeIterationWarnings(restArgs, i)
    /\ UNCHANGED <<pc, command, restArgs, exitCode, stdout, effects, env, files,
                   cliFlags, customPath, config, resolved>>
    /\ UNCHANGED <<gatewayVars, callVars>>

\* case 'serve' without process.exit(1): the unknown flags are printed and
\* serve() is called all the same.
ServeDispatchNoExit ==
    /\ pc = "parseServe"
    /\ i > Len(beforeSeparator(restArgs))
    /\ stdout' = IF Len(parsed.unknownFlags) > 0
                 THEN Append(stdout, "Unknown flag(s)") ELSE stdout
    /\ effects' = effects \cup {"serve"}
    /\ pc' = "serve"
    /\ UNCHANGED <<command, restArgs, i, parsed, exitCode, env, files, cliFlags,
                   customPath, config, resolved>>
    /\ UNCHANGED <<stderr, gatewayVars, callVars>>

\* case 'serve': after parseServeArgs returned
ServeDispatch ==
    /\ pc = "parseServe"
    /\ i > Len(beforeSeparator(restArgs))
    /\ IF Len(parsed.unknownFlags) > 0
       THEN /\ stdout' = Append(stdout, "Unknown flag(s)")
            /\ exitCode' = 1
            /\ pc' = "exited"
            /\ UNCHANGED effects
       ELSE /\ effects' = effects \cup {"serve"}
            /\ pc' = "serve"
            /\ UNCHANGED <<stdout, exitCode>>
    /\ UNCHANGED <<command, restArgs, i, parsed, env, files, cliFlags, customPath, config, resolved>>
    /\ UNCHANGED <<stderr, gatewayVars, callVars>>

\* serve(): cliFlags, loadConfig, getServeConfig
ServeLoadConfig ==
    /\ pc = "serve"
    /\ \E e \in RunEnvs, g \in RunFiles, p \in RunFiles,
          c \in IF Truthy(parsed.config) THEN RunFiles ELSE {MissingFile} :
          LET flags == [serve |-> Some([privateKey        |-> parsed.privateKey,
                                        relays            |-> parsed.relays,
                                        public            |-> Some(parsed.public),
                                        encryption        |-> parsed.encryption,
                                        persistPrivateKey |-> Undefined]),
                        use   |-> Undefined]
              fs == [global |-> g, project |-> p, custom |-> c]
              loaded == loadConfig(flags, parsed.config, e, fs)
          IN  /\ env' = e
              /\ files' = fs
              /\ cliFlags' = flags
              /\ customPath' = parsed.config
              /\ config' = loaded
              /\ resolved' = getServeConfig(loaded.serve)
              /\ stderr' = stderr \o loadConfigFromEnvWarnings(e)
    /\ effects' = effects \cup {"loadConfig"}
    /\ pc' = "serveTarget"
    /\ UNCHANGED <<command, restArgs, i, parsed, exitCode, stdout>>
    /\ UNCHANGED <<gatewayVars, callVars>>

\* serve() with the private key generated before the target is looked at
ServeTargetAfterKey ==
    /\ pc = "serveTarget"
    /\ target' = IF Len(parsed.serverArgs) > 0 THEN Some(parsed.serverArgs[1])
                  ELSE IF Truthy(GetKey(resolved, "url")) THEN GetKey(resolved, "url")
                  ELSE resolved.command
    /\ targetArgs' = IF Len(parsed.serverArgs) > 0 THEN Tail(parsed.serverArgs)
                      ELSE Coalesce(resolved.args, Some(<<>>))[1]
    /\ IF ~Truthy(target')
       THEN /\ stdout' = Append(stdout, "showServeHelp")
            /\ exitCode' = 1
            /\ pc' = "exited"
            /\ effects' = IF ~Truthy(resolved.privateKey)
                          THEN effects \cup {"generatePrivateKey"} ELSE effects
       ELSE /\ pc' = "serveKey"
            /\ UNCHANGED <<stdout, exitCode, effects>>
    /\ UNCHANGED <<command, restArgs, i, parsed, env, files, cliFlags,
                   customPath, config, resolved>>
    /\ UNCHANGED <<stderr, gateway, proxy, callVars>>

\* serve(): target resolution and the usage exit
ServeTarget ==
    /\ pc = "serveTarget"
    /\ target' = IF Len(parsed.serverArgs) > 0 THEN Some(parsed.serverArgs[1])
                  ELSE IF Truthy(GetKey(resolved, "url")) THEN GetKey(resolved, "url")
                  ELSE resolved.command
    /\ targetArgs' = IF Len(parsed.serverArgs) > 0 THEN Tail(parsed.serverArgs)
                      ELSE Coalesce(resolved.args, Some(<<>>))[1]
    /\ IF ~Truthy(target')
       THEN /\ stdout' = Append(stdout, "showServeHelp")
            /\ exitCode' = 1
            /\ pc' = "exited"
       ELSE /\ pc' = "serveKey"
            /\ UNCHANGED <<stdout, exitCode>>
    /\ UNCHANGED <<command, restArgs, i, parsed, effects, env, files, cliFlags,
                   customPath, config, resolved>>
    /\ UNCHANGED <<stderr, gateway, proxy, callVars>>

\* serve(): generatePrivateKey when none was resolved, then normalizePrivateKey;
\* an exception reaches main().catch, which exits with status 1.
ServeKey ==
    /\ pc = "serveKey"
    /\ IF ~Truthy(resolved.privateKey)
       THEN /\ effects' = effects \cup {"generatePrivateKey"}
            /\ pc' = "serveGateway"
            /\ UNCHANGED <<stdout, exitCode>>
       ELSE IF normalizePrivateKeyAccepts(resolved.privateKey[1])
       THEN /\ pc' = "serveGateway"
            /\ UNCHANGED <<stdout, exitCode, effects>>
       ELSE /\ stdout' = Append(stdout, "error")
            /\ exitCode' = 1
            /\ pc' = "exited"
            /\ UNCHANGED effects
    /\ UNCHANGED <<command, restArgs, i, parsed, env, files, cliFlags, customPath,
                   config, resolved>>
    /\ UNCHANGED <<stderr, gatewayVars, callVars>>

\* isHttpUrl: `new URL(value)` succeeds and its protocol is http: or https:.
\* The URL parser strips surrounding whitespace, reads the scheme without
\* regard to letter case, skips the slashes after a special scheme and fails
\* on an empty host or a host with a forbidden character (whitespace among
\* them); texts with a port, credentials or percent escapes are not drawn.
isHttpUrl(value) ==
    LET s == ToLowerCase(Trim(value))
        n == Len(s)
        scheme == IF StartsWith(s, <<"h", "t", "t", "p", ":">>) THEN 5
                  ELSE IF StartsWith(s, <<"h", "t", "t", "p", "s", ":">>) THEN 6
                  ELSE 0
        \* the first position from k on that is not a slash
        SkipSlashes[k \in 1..(n + 1)] ==
            IF k <= n /\ s[k] \in {"/", "\\"} THEN SkipSlashes[k + 1] ELSE k
        \* the first position from k on that ends the host
        HostEnd[k \in 1..(n + 1)] ==
            IF k > n \/ s[k] \in {"/", "\\", "?", "#"} THEN k ELSE HostEnd[k + 1]
        ForbiddenHostChars ==
            WhitespaceChars \cup {"<", ">", "[", "]", "^", "|", "%", ":", "@", ","}
        from == SkipSlashes[scheme + 1]
        to == HostEnd[from]
    IN  /\ scheme > 0
        /\ to > from
        /\ \A k \in from..(to - 1) : s[k] \notin ForbiddenHostChars

\* relays?.length ? relays : DEFAULT_RELAYS, with the relays taken as they
\* were resolved
RelaysAsResolved(relays) ==
    IF relays # Undefined THEN relays[1] ELSE DEFAULT_RELAYS

\* relays?.length ? relays : DEFAULT_RELAYS
RelaysOrDefault(relays) ==
    IF relays # Undefined /\ Len(relays[1]) > 0 THEN relays[1] ELSE DEFAULT_RELAYS

\* serve() creating the gateway for an http(s) target whatever the extra
\* arguments
ServeGatewayIgnoreArgs ==
    /\ pc = "serveGateway"
    /\ gateway' =
           IF isHttpUrl(target[1])
           THEN Some([transport |-> "http", target |-> target[1], args |-> <<>>,
                      relayHandler |-> RelaysOrDefault(resolved.relays)])
           ELSE Some([transport |-> "stdio", target |-> target[1],
                      args |-> targetArgs,
                      relayHandler |-> RelaysOrDefault(resolved.relays)])
    /\ pc' = "serveStart"
    /\ UNCHANGED <<stdout, exitCode>>
    /\ UNCHANGED <<command, restArgs, i, parsed, effects, env, files, cliFlags,
                   customPath, config, resolved>>
    /\ UNCHANGED <<stderr, target, targetArgs, proxy, callVars>>

\* serve(): the relay list and the creation of the gateway. An http(s)
\* target takes no extra arguments (the throw is caught, logged, exit 1);
\* any other target is handed with targetArgs to createStdioMcpTransport as
\* command and args.
ServeGateway ==
    /\ pc = "serveGateway"
    /\ IF isHttpUrl(target[1]) /\ Len(targetArgs) > 0
       THEN /\ stdout' = Append(stdout, "error")
            /\ exitCode' = 1
            /\ pc' = "exited"
            /\ UNCHANGED gateway
       ELSE /\ gateway' =
                   IF isHttpUrl(target[1])
                   THEN Some([transport |-> "http", target |-> target[1], args |-> <<>>,
                              relayHandler |-> RelaysOrDefault(resolved.relays)])
                   ELSE Some([transport |-> "stdio", target |-> target[1],
                              args |-> targetArgs,
                              relayHandler |-> RelaysOrDefault(resolved.relays)])
            /\ pc' = "serveStart"
            /\ UNCHANGED <<stdout, exitCode>>
    /\ UNCHANGED <<command, restArgs, i, parsed, effects, env, files, cliFlags,
                   customPath, config, resolved>>
    /\ UNCHANGED <<stderr, target, targetArgs, proxy, callVars>>

\* case 'use': the help check and the start of parseUseArgs
MainUse ==
    /\ pc = "main"
    /\ command = "use"
    /\ IF useShouldShowHelp(restArgs)
       THEN /\ stdout' = Append(stdout, "showUseHelp")
            /\ exitCode' = 0
            /\ pc' = "exited"
            /\ UNCHANGED <<i, parsed>>
       ELSE /\ parsed' = UseInitResult
            /\ i' = 1
            /\ pc' = "parseUse"
            /\ UNCHANGED <<stdout, exitCode>>
    /\ UNCHANGED <<command, restArgs, effects, env, files, cliFlags, customPath, config, resolved>>
    /\ UNCHANGED <<stderr, gatewayVars, callVars>>

\* one iteration of the loop of parseUseArgs
ParseUseStep ==
    /\ pc = "parseUse"
    /\ i <= Len(restArgs)
    /\ LET st == UseIteration(restArgs, [i |-> i, result |-> parsed])
       IN  /\ i' = st.i
           /\ parsed' = st.result
    /\ stderr' = stderr \o UseIterationWarnings(restArgs, i)
    /\ UNCHANGED <<pc, command, restArgs, exitCode, stdout, effects, env, files,
                   cliFlags, customPath, config, resolved>>
    /\ UNCHANGED <<gatewayVars, callVars>>

\* case 'use' with process.exit(0) after the unknown flags are printed.
UseDispatchExitZero ==
    /\ pc = "parseUse"
    /\ i > Len(restArgs)
    /\ IF Len(parsed.unknownFlags) > 0
       THEN /\ stdout' = Append(stdout, "Unknown flag(s)")
            /\ exitCode' = 0
            /\ pc' = "exited"
            /\ UNCHANGED effects
       ELSE /\ effects' = effects \cup {"use"}
            /\ pc' = "use"
            /\ UNCHANGED <<stdout, exitCode>>
    /\ UNCHANGED <<command, restArgs, i, parsed, env, files, cliFlags, customPath, config, resolved>>
    /\ UNCHANGED <<stderr, gatewayVars, callVars>>

\* case 'use': after parseUseArgs returned
UseDispatch ==
    /\ pc = "parseUse"
    /\ i > Len(restArgs)
    /\ IF Len(parsed.unknownFlags) > 0
       THEN /\ stdout' = Append(stdout, "Unknown flag(s)")
            /\ exitCode' = 1
            /\ pc' = "exited"
            /\ UNCHANGED effects
       ELSE /\ effects' = effects \cup {"use"}
            /\ pc' = "use"
            /\ UNCHANGED <<stdout, exitCode>>
    /\ UNCHANGED <<command, restArgs, i, parsed, env, files, cliFlags, customPath, config, resolved>>
    /\ UNCHANGED <<stderr, gatewayVars, callVars>>

\* use(): cliFlags, loadConfig, getUseConfig
UseLoadConfig ==
    /\ pc = "use"
    /\ \E e \in RunEnvs, g \in RunFiles, p \in RunFiles,
          c \in IF Truthy(parsed.config) THEN RunFiles ELSE {MissingFile} :
          LET flags == [serve |-> Undefined,
                        use   |-> Some([privateKey |-> parsed.privateKey,
                                        relays     |-> parsed.relays,
                                        encryption |-> parsed.encryption])]
              fs == [global |-> g, project |-> p, custom |-> c]
              loaded == loadConfig(flags, parsed.config, e, fs)
          IN  /\ env' = e
              /\ files' = fs
              /\ cliFlags' = flags
              /\ customPath' = parsed.config
              /\ config' = loaded
              /\ resolved' = getUseConfig(loaded.use)
              /\ stderr' = stderr \o loadConfigFromEnvWarnings(e)
    /\ effects' = effects \cup {"loadConfig"}
    /\ pc' = "useServerPubkey"
    /\ UNCHANGED <<command, restArgs, i, parsed, exitCode, stdout>>
    /\ UNCHANGED <<gatewayVars, callVars>>

\* use(): server identifier resolution and the usage exit
UseServerPubkey ==
    /\ pc = "useServerPubkey"
    /\ LET serverPubkey == Coalesce(parsed.serverPubkey, resolved.serverPubkey)
       IN  IF ~Truthy(serverPubkey)
           THEN /\ stdout' = Append(stdout, "showUseHelp")
                /\ exitCode' = 1
                /\ pc' = "exited"
           ELSE /\ pc' = "useKey"
                /\ UNCHANGED <<stdout, exitCode>>
    /\ UNCHANGED <<command, restArgs, i, parsed, effects, env, files, cliFlags,
                   customPath, config, resolved>>
    /\ UNCHANGED <<stderr, gatewayVars, callVars>>

\* use(): generatePrivateKey when none was resolved, then normalizePrivateKey
UseKey ==
    /\ pc = "useKey"
    /\ IF ~Truthy(resolved.privateKey)
       THEN /\ effects' = effects \cup {"generatePrivateKey"}
            /\ pc' = "useProxy"
            /\ UNCHANGED <<stdout, exitCode>>
       ELSE IF normalizePrivateKeyAccepts(resolved.privateKey[1])
       THEN /\ pc' = "useProxy"
            /\ UNCHANGED <<stdout, exitCode, effects>>
       ELSE /\ stdout' = Append(stdout, "error")
            /\ exitCode' = 1
            /\ pc' = "exited"
            /\ UNCHANGED effects
    /\ UNCHANGED <<command, restArgs, i, parsed, env, files, cliFlags, customPath,
                   config, resolved>>
    /\ UNCHANGED <<stderr, gatewayVars, callVars>>

\* use(): the relay list and the creation of the proxy
UseProxy ==
    /\ pc = "useProxy"
    /\ proxy' = Some([relayHandler   |-> RelaysOrDefault(resolved.relays),
                      serverPubkey   |-> Coalesce(parsed.serverPubkey, resolved.serverPubkey)[1],
                      encryptionMode |-> resolved.encryption])
    /\ pc' = "useStart"
    /\ UNCHANGED <<command, restArgs, i, parsed, exitCode, stdout, effects, env, files,
                   cliFlags, customPath, config, resolved>>
    /\ UNCHANGED <<stderr, target, targetArgs, gateway, callVars>>

Next ==
    \/ MainServe
    \/ ParseServeStep
    \/ ServeDispatch
    \/ ServeLoadConfig
    \/ ServeTarget
    \/ ServeKey
    \/ ServeGateway
    \/ MainUse
    \/ ParseUseStep
    \/ UseDispatch
    \/ UseLoadConfig
    \/ UseServerPubkey
    \/ UseKey
    \/ UseProxy

Spec == Init /\ [][Next]_vars

(***************************************************************************)
(* loadConfig called directly (as the tests do): the five sources are      *)
(* drawn from all combinations of at most MaxSettings settings, a setting  *)
(* being one key of one source (or one environment variable) given one of  *)
(* two values, the first of them falsy where the type has a falsy value.   *)
(***************************************************************************)
FileTiers == {"cli", "custom", "project", "global"}

NsKeys(ns) ==
    IF ns = "serve" THEN {"privateKey", "relays", "public", "encryption"}
    ELSE {"privateKey", "relays", "serverPubkey", "encryption"}

NsEnvNames(ns) ==
    IF ns = "serve"
    THEN {"CVMI_GATEWAY_PRIVATE_KEY", "CVMI_SERVE_PRIVATE_KEY",
          "CVMI_GATEWAY_RELAYS", "CVMI_SERVE_RELAYS",
          "CVMI_GATEWAY_PUBLIC", "CVMI_SERVE_PUBLIC",
          "CVMI_GATEWAY_ENCRYPTION", "CVMI_SERVE_ENCRYPTION"}
    ELSE {"CVMI_PROXY_PRIVATE_KEY", "CVMI_USE_PRIVATE_KEY",
          "CVMI_PROXY_RELAYS", "CVMI_USE_RELAYS",
          "CVMI_PROXY_SERVER_PUBKEY", "CVMI_USE_SERVER_PUBKEY",
          "CVMI_PROXY_ENCRYPTION", "CVMI_USE_ENCRYPTION"}

Slots(ns) ==
    {[tier |-> t, key |-> k] : t \in FileTiers, k \in NsKeys(ns)}
        \cup {[tier |-> "env", key |-> n] : n \in NsEnvNames(ns)}

RECURSIVE BoundedSubsets(_, _)
BoundedSubsets(S, n) ==
    IF n = 0 THEN {{}}
    ELSE LET smaller == BoundedSubsets(S, n - 1)
         IN  smaller \cup {T \cup {x} : T \in smaller, x \in S}

StrKey1 == <<"k", "1">>

StrKey2 == <<"k", "2">>

StrFalse == <<"f", "a", "l", "s", "e">>

\* the value a config file or the CLI gives a key
FieldValue(key, n) ==
    IF key = "privateKey" THEN (IF n = 1 THEN <<>> ELSE StrKey1)
    ELSE IF key = "relays" THEN (IF n = 1 THEN <<>> ELSE << <<"r">> >>)
    ELSE IF key = "public" THEN (n = 2)
    ELSE IF key = "encryption" THEN (IF n = 1 THEN ModeDisabled ELSE ModeRequired)
    ELSE (IF n = 1 THEN <<>> ELSE StrPk)

StrRequiredCapital == <<"R", "e", "q", "u", "i", "r", "e", "d">>

\* the value a config file gives a key: as FieldValue, but the encryption is
\* the text written in the JSON file, which no code normalizes
FileValue(key, n) ==
    IF key = "encryption" THEN (IF n = 1 THEN StrDisabled ELSE StrRequiredCapital)
    ELSE FieldValue(key, n)

\* the text an environment variable holds
EnvValue(name, n) ==
    IF name \in {"CVMI_GATEWAY_PRIVATE_KEY", "CVMI_SERVE_PRIVATE_KEY",
                 "CVMI_PROXY_PRIVATE_KEY", "CVMI_USE_PRIVATE_KEY"}
    THEN (IF n = 1 THEN StrKey1 ELSE StrKey2)
    ELSE IF name \in {"CVMI_GATEWAY_RELAYS", "CVMI_SERVE_RELAYS",
                      "CVMI_PROXY_RELAYS", "CVMI_USE_RELAYS"}
    THEN (IF n = 1 THEN <<"r">> ELSE TokRelayList)
    ELSE IF name \in {"CVMI_GATEWAY_PUBLIC", "CVMI_SERVE_PUBLIC"}
    THEN (IF n = 1 THEN StrFalse ELSE StrTrue)
    ELSE IF name \in {"CVMI_GATEWAY_ENCRYPTION", "CVMI_SERVE_ENCRYPTION",
                      "CVMI_PROXY_ENCRYPTION", "CVMI_USE_ENCRYPTION"}
    THEN (IF n = 1 THEN StrDisabled ELSE StrRequiredCapital)
    ELSE (IF n = 1 THEN StrPk ELSE StrKey2)

\* the namespace object of one source under the settings sel
TierPartial(sel, tier) ==
    LET keys == {s.key : s \in {x \in DOMAIN sel : x.tier = tier}}
    IN  IF keys = {} THEN Undefined
        ELSE Some([k \in keys |->
                      Some(IF tier = "cli"
                           THEN FieldValue(k, sel[[tier |-> tier, key |-> k]])
                           ELSE FileValue(k, sel[[tier |-> tier, key |-> k]]))])

TierConfig(sel, tier, ns) ==
    IF ns = "serve" THEN [serve |-> TierPartial(sel, tier), use |-> Undefined]
    ELSE [serve |-> Undefined, use |-> TierPartial(sel, tier)]

\* The file of a tier: missing when no setting names the tier.
TierFile(sel, tier, ns) ==
    IF TierPartial(sel, tier) = Undefined THEN MissingFile
    ELSE [exists |-> TRUE, readable |-> TRUE, valid |-> TRUE, nulls |-> {},
          content |-> TierConfig(sel, tier, ns)]

SettingsEnv(sel) ==
    [n \in EnvNames |->
        IF [tier |-> "env", key |-> n] \in DOMAIN sel
        THEN Some(EnvValue(n, sel[[tier |-> "env", key |-> n]]))
        ELSE Undefined]

InitConfig ==
    /\ pc = "loadConfig"
    /\ command = ""
    /\ restArgs = <<>>
    /\ i = 1
    /\ parsed = [unknownFlags |-> <<>>]
    /\ exitCode = NoExit
    /\ stdout = <<>>
    /\ effects = {}
    /\ config = [serve |-> EmptyObject, use |-> EmptyObject]
    /\ resolved = EmptyObject
    /\ \E ns \in {"serve", "use"} :
         \E S \in BoundedSubsets(Slots(ns), MaxSettings) :
           \E sel \in [S -> {1, 2}] :
              /\ env = SettingsEnv(sel)
              /\ files = [global  |-> TierFile(sel, "global", ns),
                          project |-> TierFile(sel, "project", ns),
                          custom  |-> TierFile(sel, "custom", ns)]
              /\ cliFlags = TierConfig(sel, "cli", ns)
              /\ customPath = IF TierPartial(sel, "custom") = Undefined
                              THEN Undefined
                              ELSE Some(<<"c", ".", "j", "s", "o", "n">>)
    /\ stderr = <<>>
    /\ target = Undefined
    /\ targetArgs = <<>>
    /\ gateway = Undefined
    /\ proxy = Undefined
    /\ norm = NoNorm
    /\ shutdown = NoShutdown
    /\ scan = NoScan
    /\ modeInput = NoModeInput
    /\ mode = Undefined

\* loadConfig(cliFlags, customConfigPath)
LoadConfig ==
    /\ pc = "loadConfig"
    /\ IF loadConfigThrows(customPath, files)
       THEN /\ pc' = "loadConfigThrew"
            /\ UNCHANGED config
       ELSE /\ pc' = "loaded"
            /\ config' = loadConfig(cliFlags, customPath, env, files)
    /\ stderr' = stderr \o loadConfigFromEnvWarnings(env)
    /\ effects' = effects \cup {"loadConfig"}
    /\ UNCHANGED <<command, restArgs, i, parsed, exitCode, stdout, env, files,
                   cliFlags, customPath, resolved>>
    /\ UNCHANGED <<gatewayVars, callVars>>

\* getServeConfig(config.serve || {})
GetServeConfig ==
    /\ pc = "loaded"
    /\ resolved' = getServeConfig(config.serve)
    /\ pc' = "resolvedServe"
    /\ UNCHANGED <<command, restArgs, i, parsed, exitCode, stdout, effects, env,
                   files, cliFlags, customPath, config>>
    /\ UNCHANGED <<stderr, gatewayVars, callVars>>

\* getUseConfig(config.use || {})
GetUseConfig ==
    /\ pc = "loaded"
    /\ resolved' = getUseConfig(config.use)
    /\ pc' = "resolvedUse"
    /\ UNCHANGED <<command, restArgs, i, parsed, exitCode, stdout, effects, env,
                   files, cliFlags, customPath, config>>
    /\ UNCHANGED <<stderr, gatewayVars, callVars>>

NextConfig ==
    \/ LoadConfig
    \/ GetServeConfig
    \/ GetUseConfig

SpecConfig == InitConfig /\ [][NextConfig]_vars

(***************************************************************************)
(* loadConfig called directly with damaged config files: each of the three *)
(* files is missing, or has one of a few contents and is intact, cannot be *)
(* read, or is not valid JSON (its content is then what the text would     *)
(* describe once repaired).                                                *)
(***************************************************************************)
\* the contents a file can have: nothing for the namespace, or one key
\* (relays or encryption)
DamagedFiles(ns) ==
    LET DamageKeys == {"relays", "encryption"}
        FileContents ==
            {EmptyCvmiConfig}
                \cup {[EmptyCvmiConfig EXCEPT
                          ![ns] = Some(SetKey(EmptyObject, k, Some(FileValue(k, n))))] :
                         k \in DamageKeys, n \in {1, 2}}
    IN  {MissingFile}
            \cup {[exists |-> TRUE, readable |-> r, valid |-> v, nulls |-> {}, content |-> c] :
                     r \in BOOLEAN, v \in BOOLEAN, c \in FileContents}

CustomConfigPath == <<"c", ".", "j", "s", "o", "n">>

InitFiles ==
    /\ pc = "loadConfig"
    /\ command = ""
    /\ restArgs = <<>>
    /\ i = 1
    /\ parsed = [unknownFlags |-> <<>>]
    /\ exitCode = NoExit
    /\ stdout = <<>>
    /\ effects = {}
    /\ config = [serve |-> EmptyObject, use |-> EmptyObject]
    /\ resolved = EmptyObject
    /\ stderr = <<>>
    /\ target = Undefined
    /\ targetArgs = <<>>
    /\ gateway = Undefined
    /\ proxy = Undefined
    /\ norm = NoNorm
    /\ shutdown = NoShutdown
    /\ scan = NoScan
    /\ modeInput = NoModeInput
    /\ mode = Undefined
    /\ \E ns \in {"serve", "use"} :
          /\ files \in [{"global", "project", "custom"} -> DamagedFiles(ns)]
          /\ customPath \in {Undefined, Some(CustomConfigPath)}
          /\ (customPath = Undefined) => files.custom = MissingFile
          /\ env \in {EmptyEnv,
                       [EmptyEnv EXCEPT !["CVMI_SERVE_RELAYS"] = Some(TokRelayList),
                                        !["CVMI_USE_RELAYS"] = Some(TokRelayList)]}
          /\ cliFlags \in {EmptyCvmiConfig,
                            [EmptyCvmiConfig EXCEPT ![ns] =
                                Some(SetKey(EmptyObject, "encryption", Some(ModeOptional)))]}

SpecFiles == InitFiles /\ [][NextConfig]_vars

(***************************************************************************)
(* loadConfig called directly with config files that hold the JSON value   *)
(* null, as the whole text or as the serve or use member                   *)
(***************************************************************************)
ObjectFile ==
    [exists |-> TRUE, readable |-> TRUE, valid |-> TRUE, nulls |-> {},
     content |-> [serve |-> Some(SetKey(EmptyObject, "relays", Some(<< <<"r">> >>))),
                  use   |-> Some(SetKey(EmptyObject, "serverPubkey", Some(StrPk)))]]

\* the text `null`, and an object whose member is null next to the other
\* member of ObjectFile
NullFile(place) ==
    [ObjectFile EXCEPT !.nulls = {place},
                       !.content = IF place = "top" THEN EmptyCvmiConfig
                                   ELSE [@ EXCEPT ![place] = Undefined]]

InitNullFiles ==
    /\ pc = "loadConfig"
    /\ command = ""
    /\ restArgs = <<>>
    /\ i = 1
    /\ parsed = [unknownFlags |-> <<>>]
    /\ exitCode = NoExit
    /\ stdout = <<>>
    /\ effects = {}
    /\ config = [serve |-> EmptyObject, use |-> EmptyObject]
    /\ resolved = EmptyObject
    /\ stderr = <<>>
    /\ target = Undefined
    /\ targetArgs = <<>>
    /\ gateway = Undefined
    /\ proxy = Undefined
    /\ norm = NoNorm
    /\ shutdown = NoShutdown
    /\ scan = NoScan
    /\ modeInput = NoModeInput
    /\ mode = Undefined
    /\ files \in [{"global", "project", "custom"} ->
                    {MissingFile, ObjectFile, NullFile("top"), NullFile("serve"),
                     NullFile("use")}]
    /\ customPath \in {Undefined, Some(CustomConfigPath)}
    /\ (customPath = Undefined) => files.custom = MissingFile
    /\ env \in {EmptyEnv,
                 [EmptyEnv EXCEPT !["CVMI_SERVE_RELAYS"] = Some(TokRelayList),
                                  !["CVMI_USE_RELAYS"] = Some(TokRelayList)]}
    /\ cliFlags \in {EmptyCvmiConfig,
                      [EmptyCvmiConfig EXCEPT !.serve =
                          Some(SetKey(EmptyObject, "encryption", Some(ModeOptional)))]}

SpecNullFiles == InitNullFiles /\ [][NextConfig]_vars

(***************************************************************************)
(* Shutdown: serve() and use() from the creation of the gateway or proxy   *)
(* on (start, waitForShutdownSignal, stop, process.exit(0)), and the       *)
(* earlier serve() and use() that install setupShutdownHandler before the  *)
(* start. At most MaxSignals signals are delivered. A signal without a     *)
(* listener ends the process (the default disposition of SIGINT and        *)
(* SIGTERM); the exit status is then 128 + the signal number.              *)
(***************************************************************************)
SignalNames == {"SIGINT", "SIGTERM"}

\* the process has neither exited nor been killed
Alive == pc \in {"serveStart", "useStart", "waiting", "stopping",
                  "setupShutdownHandler", "legacyStart", "legacyRunning"}

InitShutdown ==
    /\ command \in {"serve", "use"}
    /\ pc \in {IF command = "serve" THEN "serveStart" ELSE "useStart", "setupShutdownHandler"}
    /\ gateway = IF command = "serve"
                 THEN Some([transport |-> "stdio", target |-> TokNpx, args |-> <<>>,
                            relayHandler |-> DEFAULT_RELAYS])
                 ELSE Undefined
    /\ proxy = IF command = "use"
               THEN Some([relayHandler |-> DEFAULT_RELAYS, serverPubkey |-> StrPk,
                          encryptionMode |-> Some(DEFAULT_ENCRYPTION)])
               ELSE Undefined
    /\ target = IF command = "serve" THEN Some(TokNpx) ELSE Undefined
    /\ targetArgs = <<>>
    /\ shutdown = NoShutdown
    /\ restArgs = <<>>
    /\ i = 1
    /\ parsed = [unknownFlags |-> <<>>]
    /\ exitCode = NoExit
    /\ stdout = <<>>
    /\ effects = {}
    /\ env = EmptyEnv
    /\ files = [global |-> MissingFile, project |-> MissingFile, custom |-> MissingFile]
    /\ cliFlags = EmptyCvmiConfig
    /\ customPath = Undefined
    /\ config = [serve |-> EmptyObject, use |-> EmptyObject]
    /\ resolved = EmptyObject
    /\ stderr = <<>>
    /\ norm = NoNorm
    /\ scan = NoScan
    /\ modeInput = NoModeInput
    /\ mode = Undefined

\* await gateway.start() / proxy.start() returns, the outro is printed and
\* waitForShutdownSignal() installs its two once-listeners
GatewayStart ==
    /\ pc \in {"serveStart", "useStart"}
    /\ effects' = effects \cup {"start"}
    /\ stdout' = Append(stdout, "started")
    /\ shutdown' = [shutdown EXCEPT !.handler = "waitForShutdownSignal",
                                    !.listeners = SignalNames]
    /\ pc' = "waiting"
    /\ UNCHANGED <<command, restArgs, i, parsed, exitCode, env, files, cliFlags,
                   customPath, config, resolved, stderr, gatewayVars, scan, modeInput,
                   mode, norm>>

\* setupShutdownHandler(cleanupFn): process.on for both signals
SetupShutdownHandler ==
    /\ pc = "setupShutdownHandler"
    /\ shutdown' = [shutdown EXCEPT !.handler = "setupShutdownHandler",
                                    !.listeners = SignalNames]
    /\ pc' = "legacyStart"
    /\ UNCHANGED <<command, restArgs, i, parsed, exitCode, stdout, effects, env, files,
                   cliFlags, customPath, config, resolved, stderr, gatewayVars, scan,
                   modeInput, mode, norm>>

\* the earlier serve()/use(): await gateway.start() returns, the outro is
\* printed, and the function waits on a promise that never resolves
LegacyStart ==
    /\ pc = "legacyStart"
    /\ effects' = effects \cup {"start"}
    /\ stdout' = Append(stdout, "started")
    /\ pc' = "legacyRunning"
    /\ UNCHANGED <<command, restArgs, i, parsed, exitCode, env, files, cliFlags,
                   customPath, config, resolved, stderr, gatewayVars, callVars>>

\* a signal for which no listener is installed
SignalDefault(sig) ==
    /\ Alive
    /\ Len(shutdown.signals) < MaxSignals
    /\ sig \notin shutdown.listeners
    /\ shutdown' = [shutdown EXCEPT !.signals = Append(@, sig)]
    /\ exitCode' = IF sig = "SIGINT" THEN 130 ELSE 143
    /\ pc' = "killed"
    /\ UNCHANGED <<command, restArgs, i, parsed, stdout, effects, env, files, cliFlags,
                   customPath, config, resolved, stderr, gatewayVars, scan, modeInput,
                   mode, norm>>

\* waitForShutdownSignal with listeners that stay installed and call stop()
\* at every signal
SignalOnceStopsAgain(sig) ==
    /\ Alive
    /\ Len(shutdown.signals) < MaxSignals
    /\ shutdown.handler = "waitForShutdownSignal"
    /\ sig \in shutdown.listeners
    /\ shutdown' = [shutdown EXCEPT !.signals = Append(@, sig), !.stopCalls = @ + 1]
    /\ stdout' = Append(stdout, "received")
    /\ pc' = "stopping"
    /\ UNCHANGED <<command, restArgs, i, parsed, exitCode, effects, env, files, cliFlags,
                   customPath, config, resolved, stderr, gatewayVars, scan, modeInput,
                   mode, norm>>

\* a signal taken by a once-listener of waitForShutdownSignal: the listener
\* is removed and calls resolve; the first resolve settles the promise, and
\* serve()/use() goes on at once with the message and the call of stop()
SignalOnce(sig) ==
    /\ Alive
    /\ Len(shutdown.signals) < MaxSignals
    /\ shutdown.handler = "waitForShutdownSignal"
    /\ sig \in shutdown.listeners
    /\ IF pc = "waiting"
       THEN /\ shutdown' = [shutdown EXCEPT !.signals = Append(@, sig),
                                            !.listeners = @ \ {sig},
                                            !.stopCalls = @ + 1]
            /\ stdout' = Append(stdout, "received")
            /\ pc' = "stopping"
       ELSE /\ shutdown' = [shutdown EXCEPT !.signals = Append(@, sig),
                                            !.listeners = @ \ {sig}]
            /\ UNCHANGED <<stdout, pc>>
    /\ UNCHANGED <<command, restArgs, i, parsed, exitCode, effects, env, files, cliFlags,
                   customPath, config, resolved, stderr, gatewayVars, scan, modeInput,
                   mode, norm>>

\* a signal taken by a listener of setupShutdownHandler: shutdown(signal)
\* prints the message and calls cleanupFn()
SignalOn(sig) ==
    /\ Alive
    /\ Len(shutdown.signals) < MaxSignals
    /\ shutdown.handler = "setupShutdownHandler"
    /\ sig \in shutdown.listeners
    /\ shutdown' = [shutdown EXCEPT !.signals = Append(@, sig), !.stopCalls = @ + 1]
    /\ stdout' = Append(stdout, "received")
    /\ UNCHANGED <<pc, command, restArgs, i, parsed, exitCode, effects, env, files,
                   cliFlags, customPath, config, resolved, stderr, gatewayVars, scan,
                   modeInput, mode, norm>>

\* a pending stop() resolves: the code after the await calls process.exit(0)
StopDone ==
    /\ Alive
    /\ shutdown.stopsDone < shutdown.stopCalls
    /\ shutdown' = [shutdown EXCEPT !.stopsDone = @ + 1]
    /\ exitCode' = 0
    /\ pc' = "exited"
    /\ UNCHANGED <<command, restArgs, i, parsed, stdout, effects, env, files, cliFlags,
                   customPath, config, resolved, stderr, gatewayVars, scan, modeInput,
                   mode, norm>>

\* a pending stop() rejects: serve()/use() rejects and main().catch exits
\* with status 1; in a listener of setupShutdownHandler the rejection is
\* unhandled, which ends the process with status 1 as well
StopThrows ==
    /\ Alive
    /\ shutdown.stopsDone < shutdown.stopCalls
    /\ stdout' = Append(stdout, "error")
    /\ exitCode' = 1
    /\ pc' = "exited"
    /\ UNCHANGED <<command, restArgs, i, parsed, effects, env, files, cliFlags,
                   customPath, config, resolved, stderr, gatewayVars, callVars>>

NextShutdown ==
    \/ GatewayStart
    \/ SetupShutdownHandler
    \/ LegacyStart
    \/ \E sig \in SignalNames : SignalDefault(sig)
    \/ \E sig \in SignalNames : SignalOnce(sig)
    \/ \E sig \in SignalNames : SignalOn(sig)
    \/ StopDone
    \/ StopThrows

SpecShutdown == InitShutdown /\ [][NextShutdown]_vars

(***************************************************************************)
(* parseEncryptionMode called directly: on no text, on the empty text, on  *)
(* the three mode names in every letter case, and on other texts           *)
(***************************************************************************)
CaseVariants(word) ==
    LET ToUpperChar(c) ==
            IF \E k \in 1..Len(LowerChars) : LowerChars[k] = c
            THEN UpperChars[CHOOSE k \in 1..Len(LowerChars) : LowerChars[k] = c]
            ELSE c
    IN  {[k \in 1..Len(word) |-> IF k \in U THEN ToUpperChar(word[k]) ELSE word[k]] :
            U \in SUBSET (1..Len(word))}

EncryptionTexts ==
    LET OtherTexts ==
            {TokNpx, TokBogus, StrTrue, SubSeq(StrRequired, 1, 7), StrOptional \o <<" ">>,
             <<" ">> \o StrDisabled, ToLowerCase(StrRequiredCapital) \o <<"!">>}
    IN  {Undefined, Some(<<>>)}
            \cup {Some(x) : x \in CaseVariants(StrOptional) \cup CaseVariants(StrRequired)
                                    \cup CaseVariants(StrDisabled) \cup OtherTexts}

InitEncryption ==
    /\ pc = "parseEncryptionMode"
    /\ modeInput \in [value : EncryptionTexts, context : {CliContext, EnvContext}]
    /\ mode = Undefined
    /\ stderr = <<>>
    /\ command = ""
    /\ restArgs = <<>>
    /\ i = 1
    /\ parsed = [unknownFlags |-> <<>>]
    /\ exitCode = NoExit
    /\ stdout = <<>>
    /\ effects = {}
    /\ env = EmptyEnv
    /\ files = [global |-> MissingFile, project |-> MissingFile, custom |-> MissingFile]
    /\ cliFlags = EmptyCvmiConfig
    /\ customPath = Undefined
    /\ config = [serve |-> EmptyObject, use |-> EmptyObject]
    /\ resolved = EmptyObject
    /\ target = Undefined
    /\ targetArgs = <<>>
    /\ gateway = Undefined
    /\ proxy = Undefined
    /\ norm = NoNorm
    /\ shutdown = NoShutdown
    /\ scan = NoScan

\* parseEncryptionMode(value, context)
ParseEncryptionMode ==
    /\ pc = "parseEncryptionMode"
    /\ mode' = parseEncryptionMode(modeInput.value)
    /\ stderr' = stderr \o parseEncryptionModeWarnings(modeInput.value, modeInput.context)
    /\ pc' = "parsedEncryptionMode"
    /\ UNCHANGED <<command, restArgs, i, parsed, exitCode, stdout, effects, env, files,
                   cliFlags, customPath, config, resolved, gatewayVars, scan, modeInput,
                   norm, shutdown>>

NextEncryption == ParseEncryptionMode

SpecEncryption == InitEncryption /\ [][NextEncryption]_vars

(***************************************************************************)
(* splitCommandString called directly on every text of at most MaxLen      *)
(* characters over a letter, two whitespace characters, the two quotes and *)
(* the backslash                                                           *)
(***************************************************************************)
SplitInputs ==
    LET SplitAlphabet == {"a", "$", " ", "\t", SingleQuote, DoubleQuote, Backslash}
    IN  UNION {[1..n -> SplitAlphabet] : n \in 0..MaxLen}

InitSplit ==
    /\ pc = "splitCommandString"
    /\ \E text \in SplitInputs : scan = [NoScan EXCEPT !.input = text]
    /\ modeInput = NoModeInput
    /\ mode = Undefined
    /\ stderr = <<>>
    /\ command = ""
    /\ restArgs = <<>>
    /\ i = 1
    /\ parsed = [unknownFlags |-> <<>>]
    /\ exitCode = NoExit
    /\ stdout = <<>>
    /\ effects = {}
    /\ env = EmptyEnv
    /\ files = [global |-> MissingFile, project |-> MissingFile, custom |-> MissingFile]
    /\ cliFlags = EmptyCvmiConfig
    /\ customPath = Undefined
    /\ config = [serve |-> EmptyObject, use |-> EmptyObject]
    /\ resolved = EmptyObject
    /\ target = Undefined
    /\ targetArgs = <<>>
    /\ gateway = Undefined
    /\ proxy = Undefined
    /\ norm = NoNorm
    /\ shutdown = NoShutdown

\* const s = input.trim(); if (!s) return []; and the locals of the loop
SplitBegin ==
    /\ pc = "splitCommandString"
    /\ scan' = ScanStart(scan.input)
    /\ pc' = IF Trim(scan.input) = <<>> THEN "splitReturned" ELSE "splitLoop"
    /\ UNCHANGED <<command, restArgs, i, parsed, exitCode, stdout, effects, env, files,
                   cliFlags, customPath, config, resolved, stderr, gatewayVars,
                   modeInput, mode, norm, shutdown>>

\* one iteration of the for loop
SplitStep ==
    /\ pc = "splitLoop"
    /\ scan.i <= Len(scan.s)
    /\ scan' = ScanIteration(scan)
    /\ UNCHANGED <<pc, command, restArgs, i, parsed, exitCode, stdout, effects, env, files,
                   cliFlags, customPath, config, resolved, stderr, gatewayVars,
                   modeInput, mode, norm, shutdown>>

\* push(); return out
SplitEnd ==
    /\ pc = "splitLoop"
    /\ scan.i > Len(scan.s)
    /\ scan' = Push(scan)
    /\ pc' = "splitReturned"
    /\ UNCHANGED <<command, restArgs, i, parsed, exitCode, stdout, effects, env, files,
                   cliFlags, customPath, config, resolved, stderr, gatewayVars,
                   modeInput, mode, norm, shutdown>>

NextSplit ==
    \/ SplitBegin
    \/ SplitStep
    \/ SplitEnd

SpecSplit == InitSplit /\ [][NextSplit]_vars

(***************************************************************************)
(* normalizeCommandAndArgs called directly on every command text of at     *)
(* most MaxLen characters and on argument lists of zero, one and two items *)
(***************************************************************************)
InitNormalize ==
    /\ pc = "normalizeCommandAndArgs"
    /\ \E text \in SplitInputs, args \in {<<>>, <<TokNpx>>, <<TokY, TokNpx>>} :
           norm = [command |-> text, args |-> args, result |-> Undefined]
    /\ scan = NoScan
    /\ modeInput = NoModeInput
    /\ mode = Undefined
    /\ stderr = <<>>
    /\ command = ""
    /\ restArgs = <<>>
    /\ i = 1
    /\ parsed = [unknownFlags |-> <<>>]
    /\ exitCode = NoExit
    /\ stdout = <<>>
    /\ effects = {}
    /\ env = EmptyEnv
    /\ files = [global |-> MissingFile, project |-> MissingFile, custom |-> MissingFile]
    /\ cliFlags = EmptyCvmiConfig
    /\ customPath = Undefined
    /\ config = [serve |-> EmptyObject, use |-> EmptyObject]
    /\ resolved = EmptyObject
    /\ target = Undefined
    /\ targetArgs = <<>>
    /\ gateway = Undefined
    /\ proxy = Undefined
    /\ shutdown = NoShutdown

\* normalizeCommandAndArgs(command, args)
NormalizeCommandAndArgs ==
    /\ pc = "normalizeCommandAndArgs"
    /\ norm' = [norm EXCEPT !.result = Some(normalizeCommandAndArgs(norm.command, norm.args))]
    /\ pc' = "normalized"
    /\ UNCHANGED <<command, restArgs, i, parsed, exitCode, stdout, effects, env, files,
                   cliFlags, customPath, config, resolved, stderr, gatewayVars,
                   scan, modeInput, mode, shutdown>>

NextNormalize == NormalizeCommandAndArgs

SpecNormalize == InitNormalize /\ [][NextNormalize]_vars

(***************************************************************************)
(* parseServeArgs / parseUseArgs called directly (as the tests do through  *)
(* __test__) on every argument list, help tokens included                  *)
(***************************************************************************)
InitParse ==
    /\ pc \in {"parseServe", "parseUse"}
    /\ command = (IF pc = "parseServe" THEN "serve" ELSE "use")
    /\ restArgs \in ArgLists(IF command = "serve" THEN ServeTokens ELSE UseTokens)
    /\ i = 1
    /\ parsed = (IF command = "serve" THEN ServeInitResult(restArgs) ELSE UseInitResult)
    /\ exitCode = NoExit
    /\ stdout = <<>>
    /\ effects = {}
    /\ env = EmptyEnv
    /\ files = [global |-> MissingFile, project |-> MissingFile, custom |-> MissingFile]
    /\ cliFlags = EmptyCvmiConfig
    /\ customPath = Undefined
    /\ config = [serve |-> EmptyObject, use |-> EmptyObject]
    /\ resolved = EmptyObject
    /\ stderr = <<>>
    /\ target = Undefined
    /\ targetArgs = <<>>
    /\ gateway = Undefined
    /\ proxy = Undefined
    /\ norm = NoNorm
    /\ shutdown = NoShutdown
    /\ scan = NoScan
    /\ modeInput = NoModeInput
    /\ mode = Undefined

NextParse ==
    \/ ParseServeStep
    \/ ParseUseStep

SpecParse == InitParse /\ [][NextParse]_vars

(***************************************************************************)
(* Properties                                                              *)
(***************************************************************************)

\* C1: for every combination of the five sources and every key of the serve
\* and use namespaces, loadConfig returns for that key the value of the
\* highest-priority source (CLI > custom > project > global > environment)
\* that sets it, falsy values included; a source that omits the key is
\* skipped, and a key no source sets is absent from the result.
C1_HighestPrioritySourceWins ==
    pc \in {"loaded", "resolvedServe", "resolvedUse"} =>
        \A ns \in {"serve", "use"} :
            LET custom == IF Truthy(customPath) THEN loadConfigFromFile(files.custom)
                          ELSE EmptyCvmiConfig
                \* highest priority first
                ranked == <<cliFlags[ns], custom[ns], loadConfigFromFile(files.project)[ns],
                            loadConfigFromFile(files.global)[ns], loadConfigFromEnv(env)[ns]>>
                sets(t, key) == /\ ranked[t] # Undefined
                                /\ key \in DOMAIN ranked[t][1]
                                /\ ranked[t][1][key] # Undefined
            IN  \A key \in NsKeys(ns) :
                    IF \E t \in 1..5 : sets(t, key)
                    THEN LET first == CHOOSE t \in 1..5 :
                                          sets(t, key) /\ \A u \in 1..(t - 1) : ~sets(u, key)
                         IN  GetKey(config[ns], key) = ranked[first][1][key]
                    ELSE key \notin DOMAIN config[ns]

\* C1 witness: the CLI sets relays to the empty list, the project file omits
\* relays, the global file sets a non-empty list, and the empty list wins.
C1_Witness ==
    /\ pc = "loaded"
    /\ cliFlags.serve # Undefined
    /\ GetKey(cliFlags.serve[1], "relays") = Some(<<>>)
    /\ files.project.valid
    /\ files.project.content.serve # Undefined
    /\ GetKey(files.project.content.serve[1], "relays") = Undefined
    /\ files.global.valid
    /\ files.global.content.serve # Undefined
    /\ GetKey(files.global.content.serve[1], "relays") = Some(<< <<"r">> >>)
    /\ GetKey(config.serve, "relays") = Some(<<>>)

\* C2 (as claimed): when serve runs without --public, the resolved public
\* value is the one of the highest-priority config file or environment
\* variable that sets it, and false only when none sets it.
C2_PublicFromFilesWhenFlagAbsent ==
    (/\ command = "serve"
     /\ pc \in {"serveTarget", "serveKey", "serveGateway", "serveStart"}
     /\ ~Includes(beforeSeparator(restArgs), FlagPublic)) =>
        LET custom == IF Truthy(customPath) THEN loadConfigFromFile(files.custom)
                      ELSE EmptyCvmiConfig
            ranked == <<custom.serve, loadConfigFromFile(files.project).serve,
                        loadConfigFromFile(files.global).serve, loadConfigFromEnv(env).serve>>
            sets(t) == /\ ranked[t] # Undefined
                       /\ GetKey(ranked[t][1], "public") # Undefined
        IN  IF \E t \in 1..4 : sets(t)
            THEN LET first == CHOOSE t \in 1..4 : sets(t) /\ \A u \in 1..(t - 1) : ~sets(u)
                 IN  resolved.public = ranked[first][1]["public"]
            ELSE resolved.public = Some(FALSE)

\* C3 (as claimed): for every environment field with a canonical variable and
\* a legacy alias, loadConfigFromEnv takes the canonical variable when it is
\* set and the legacy variable only when the canonical one is not set.
C3_CanonicalVariableWins ==
    pc = "loaded" =>
        LET loaded == loadConfigFromEnv(env)
            pick(canonical, legacy) ==
                IF env[canonical] # Undefined THEN env[canonical] ELSE env[legacy]
            text(ns, key) == GetKey(OrEmptyObject(loaded[ns]), key)
            list(ns, canonical, legacy) ==
                IF pick(canonical, legacy) = Undefined THEN Undefined
                ELSE Some(SplitRelays(pick(canonical, legacy)[1]))
        IN  /\ text("serve", "privateKey") = pick("CVMI_SERVE_PRIVATE_KEY", "CVMI_GATEWAY_PRIVATE_KEY")
            /\ text("serve", "relays") = list("serve", "CVMI_SERVE_RELAYS", "CVMI_GATEWAY_RELAYS")
            /\ text("serve", "public") =
                   (IF pick("CVMI_SERVE_PUBLIC", "CVMI_GATEWAY_PUBLIC") = Undefined THEN Undefined
                    ELSE Some(pick("CVMI_SERVE_PUBLIC", "CVMI_GATEWAY_PUBLIC")[1] = StrTrue))
            /\ text("serve", "encryption") =
                   parseEncryptionMode(pick("CVMI_SERVE_ENCRYPTION", "CVMI_GATEWAY_ENCRYPTION"))
            /\ text("use", "privateKey") = pick("CVMI_USE_PRIVATE_KEY", "CVMI_PROXY_PRIVATE_KEY")
            /\ text("use", "relays") = list("use", "CVMI_USE_RELAYS", "CVMI_PROXY_RELAYS")
            /\ text("use", "serverPubkey") =
                   pick("CVMI_USE_SERVER_PUBKEY", "CVMI_PROXY_SERVER_PUBKEY")
            /\ text("use", "encryption") =
                   parseEncryptionMode(pick("CVMI_USE_ENCRYPTION", "CVMI_PROXY_ENCRYPTION"))

\* C4: whenever the parsed argument list of serve or use has a non-empty
\* unknownFlags list, serve()/use() is never invoked: no configuration is
\* loaded, no private key is generated, and the process goes nowhere but to
\* its exit.
C4_NoActionOnUnknownFlags ==
    (pc # "main" /\ Len(parsed.unknownFlags) > 0) =>
        /\ effects = {}
        /\ pc \in {"parseServe", "parseUse", "exited"}
        /\ config = [serve |-> EmptyObject, use |-> EmptyObject]

\* C4 witness: a run that parsed an unknown flag and has exited.
C4_Witness ==
    /\ pc = "exited"
    /\ Len(parsed.unknownFlags) > 0
    /\ stdout = <<"Unknown flag(s)">>

\* C5 (as claimed): every serve or use invocation whose arguments contain a
\* token the parser reports in unknownFlags ends with a non-zero status.
C5_UnknownFlagExitsNonZero ==
    (/\ pc = "exited"
     /\ Len((IF command = "serve" THEN parseServeArgs(restArgs)
             ELSE parseUseArgs(restArgs)).unknownFlags) > 0) =>
        exitCode # 0

\* C5 (amended): every serve or use invocation that does not ask for help
\* (--help or -h before the first `--` for serve, anywhere for use) and
\* whose arguments contain a token the parser reports in unknownFlags never
\* gets past parsing and ends with status 1.
C5_UnknownFlagExitsNonZeroUnlessHelp ==
    (/\ Len((IF command = "serve" THEN parseServeArgs(restArgs)
             ELSE parseUseArgs(restArgs)).unknownFlags) > 0
     /\ ~(IF command = "serve"
          THEN \E k \in 1..Len(restArgs) :
                  /\ restArgs[k] \in {FlagHelp, FlagH}
                  /\ \A j \in 1..k : restArgs[j] # Separator
          ELSE \E k \in 1..Len(restArgs) : restArgs[k] \in {FlagHelp, FlagH})) =>
        /\ pc \in {"main", "parseServe", "parseUse", "exited"}
        /\ pc = "exited" => exitCode = 1

\* C5 witness: a use invocation with a missing flag value that exited with 1.
C5_Witness ==
    /\ pc = "exited"
    /\ command = "use"
    /\ exitCode = 1
    /\ parsed.unknownFlags = <<FlagPrivateKey \o MissingValueSuffix>>

\* C6: in serve mode with a separator, serverArgs is exactly the sequence of
\* tokens after the first `--`, and nothing after the separator is read as a
\* cvmi flag, consumed as a flag value or recorded in unknownFlags: every
\* flag that is set, every value and every unknownFlags entry comes from a
\* token before the separator.
C6_AfterSeparatorVerbatim ==
    (/\ command = "serve"
     /\ pc = "parseServe"
     /\ \E k \in 1..Len(restArgs) : restArgs[k] = Separator) =>
        LET sep == CHOOSE k \in 1..Len(restArgs) :
                       restArgs[k] = Separator /\ \A j \in 1..(k - 1) : restArgs[j] # Separator
            valueOf(flag) == {restArgs[k + 1] : k \in {m \in 1..(sep - 2) : restArgs[m] = flag}}
        IN  /\ parsed.serverArgs = [j \in 1..(Len(restArgs) - sep) |-> restArgs[sep + j]]
            /\ parsed.verbose => \E k \in 1..(sep - 1) : restArgs[k] = FlagVerbose
            /\ parsed.public => \E k \in 1..(sep - 1) : restArgs[k] = FlagPublic
            /\ parsed.privateKey # Undefined => parsed.privateKey[1] \in valueOf(FlagPrivateKey)
            /\ parsed.config # Undefined => parsed.config[1] \in valueOf(FlagConfig)
            /\ parsed.relays # Undefined =>
                   \E v \in valueOf(FlagRelays) : parsed.relays = Some(SplitRelays(v))
            /\ parsed.encryption # Undefined =>
                   \E v \in valueOf(FlagEncryptionMode) :
                       parsed.encryption = parseEncryptionMode(Some(v))
            /\ \A e \in 1..Len(parsed.unknownFlags) :
                   \E k \in 1..(sep - 1) :
                       \/ parsed.unknownFlags[e] = restArgs[k]
                       \/ parsed.unknownFlags[e] = restArgs[k] \o MissingValueSuffix

\* C6 witness: the parse of `--verbose -- --bogus --help` is complete, with
\* both flag-like tokens in serverArgs and no unknown flag.
C6_Witness ==
    /\ pc = "parseServe"
    /\ restArgs = <<FlagVerbose, Separator, TokBogus>> \/ restArgs = <<Separator, Separator, FlagHelp>>
    /\ i > Len(beforeSeparator(restArgs))
    /\ parsed.serverArgs \in {<<TokBogus>>, <<Separator, FlagHelp>>}
    /\ parsed.unknownFlags = <<>>

\* C7: in serve mode with a separator, the tokens before the separator that
\* are neither a recognized cvmi flag nor the value consumed by a value flag
\* are, in order, exactly the unknownFlags entries other than the
\* `(missing value)` ones, and none of them is added to serverArgs.
C7_StrayTokensBeforeSeparator ==
    (/\ command = "serve"
     /\ pc = "parseServe"
     /\ \E k \in 1..Len(restArgs) : restArgs[k] = Separator
     /\ i > Len(beforeSeparator(restArgs))) =>
        LET sep == CHOOSE k \in 1..Len(restArgs) :
                       restArgs[k] = Separator /\ \A j \in 1..(k - 1) : restArgs[j] # Separator
            valueFlags == {FlagPrivateKey, FlagRelays, FlagEncryptionMode, FlagConfig}
            recognized == valueFlags \cup {FlagVerbose, FlagPublic, FlagHelp, FlagH}
            isValue(k) == /\ k > 1
                          /\ restArgs[k - 1] \in valueFlags
                          /\ ~StartsWith(restArgs[k], DashDash)
            stray == {k \in 1..(sep - 1) : restArgs[k] \notin recognized /\ ~isValue(k)}
            strayTokens == [j \in 1..Cardinality(stray) |->
                               restArgs[CHOOSE k \in stray :
                                            Cardinality({m \in stray : m < k}) = j - 1]]
            notMissingValue(e) == \A f \in valueFlags : e # f \o MissingValueSuffix
        IN  /\ SelectSeq(parsed.unknownFlags, notMissingValue) = strayTokens
            /\ Len(parsed.serverArgs) = Len(restArgs) - sep

\* C7 witness: `-y npx -- npx` is parsed, -y and npx are reported.
C7_Witness ==
    /\ pc = "parseServe"
    /\ restArgs = <<TokY, TokNpx, Separator>>
    /\ i > Len(beforeSeparator(restArgs))
    /\ parsed.unknownFlags = <<TokY, TokNpx>>
    /\ parsed.serverArgs = <<>>

\* C8 (as claimed): in serve mode without a separator, every single-dash
\* short token and every other non-flag token that is not the value of a
\* value flag is appended to serverArgs in its original order, and none of
\* them is reported in unknownFlags.
C8_LenientPositionals ==
    (/\ command = "serve"
     /\ pc = "parseServe"
     /\ \A k \in 1..Len(restArgs) : restArgs[k] # Separator
     /\ i > Len(restArgs)) =>
        LET valueFlags == {FlagPrivateKey, FlagRelays, FlagEncryptionMode, FlagConfig}
            isValue(k) == /\ k > 1
                          /\ restArgs[k - 1] \in valueFlags
                          /\ ~StartsWith(restArgs[k], DashDash)
            kept == {k \in 1..Len(restArgs) : ~StartsWith(restArgs[k], DashDash) /\ ~isValue(k)}
            keptTokens == [j \in 1..Cardinality(kept) |->
                              restArgs[CHOOSE k \in kept :
                                           Cardinality({m \in kept : m < k}) = j - 1]]
        IN  /\ parsed.serverArgs = keptTokens
            /\ \A e \in 1..Len(parsed.unknownFlags) :
                   StartsWith(parsed.unknownFlags[e], DashDash)

\* C8 (amended): the same, except for the single-dash token -h, which is the
\* short form of --help and is consumed without being added to serverArgs.
C8_LenientPositionalsExceptH ==
    (/\ command = "serve"
     /\ pc = "parseServe"
     /\ \A k \in 1..Len(restArgs) : restArgs[k] # Separator
     /\ i > Len(restArgs)) =>
        LET valueFlags == {FlagPrivateKey, FlagRelays, FlagEncryptionMode, FlagConfig}
            isValue(k) == /\ k > 1
                          /\ restArgs[k - 1] \in valueFlags
                          /\ ~StartsWith(restArgs[k], DashDash)
            kept == {k \in 1..Len(restArgs) :
                        /\ ~StartsWith(restArgs[k], DashDash)
                        /\ ~isValue(k)
                        /\ restArgs[k] # FlagH}
            keptTokens == [j \in 1..Cardinality(kept) |->
                              restArgs[CHOOSE k \in kept :
                                           Cardinality({m \in kept : m < k}) = j - 1]]
        IN  /\ parsed.serverArgs = keptTokens
            /\ \A e \in 1..Len(parsed.unknownFlags) :
                   StartsWith(parsed.unknownFlags[e], DashDash)

\* C8 witness: `npx --verbose -y` is parsed into serverArgs npx, -y.
C8_Witness ==
    /\ pc = "parseServe"
    /\ restArgs = <<TokNpx, FlagVerbose, TokY>>
    /\ i > Len(restArgs)
    /\ parsed.serverArgs = <<TokNpx, TokY>>
    /\ parsed.verbose
    /\ parsed.unknownFlags = <<>>

\* C9: in serve and in use mode, a loop iteration that meets a value-taking
\* flag which is the last token, or whose next token starts with `--`, adds
\* `<flag> (missing value)` to unknownFlags, leaves the flag's field unset,
\* changes nothing else, and does not consume the next token: the next
\* iteration processes that token itself (the loop of serve ends when that
\* token is the separator, which has already split the argument list).
C9_MissingValue ==
    [][ LET valueFlags == IF command = "serve"
                          THEN {FlagPrivateKey, FlagRelays, FlagEncryptionMode, FlagConfig}
                          ELSE {FlagPrivateKey, FlagRelays, FlagEncryptionMode, FlagConfig,
                                FlagServerPubkey}
            last == IF command = "serve" THEN Len(beforeSeparator(restArgs)) ELSE Len(restArgs)
            field == IF restArgs[i] = FlagPrivateKey THEN "privateKey"
                     ELSE IF restArgs[i] = FlagRelays THEN "relays"
                     ELSE IF restArgs[i] = FlagEncryptionMode THEN "encryption"
                     ELSE IF restArgs[i] = FlagConfig THEN "config"
                     ELSE "serverPubkey"
        IN  (/\ pc \in {"parseServe", "parseUse"}
             /\ i <= last
             /\ restArgs[i] \in valueFlags
             /\ (i = Len(restArgs) \/ StartsWith(restArgs[i + 1], DashDash))) =>
                /\ parsed' = [parsed EXCEPT
                                 ![field] = Undefined,
                                 !.unknownFlags = Append(@, restArgs[i] \o MissingValueSuffix)]
                /\ i < last => i' = i + 1
                /\ i = last => i' > last
      ]_vars

\* C9 witness: `--relays --verbose` is parsed: the missing value is reported,
\* relays is unset and --verbose took effect.
C9_Witness ==
    /\ pc \in {"parseServe", "parseUse"}
    /\ restArgs = <<FlagRelays, FlagVerbose>>
    /\ i = 3
    /\ parsed.unknownFlags = <<FlagRelays \o MissingValueSuffix>>
    /\ parsed.relays = Undefined
    /\ parsed.verbose

\* C10: cvmi serve prints its help and does nothing else exactly when --help
\* or -h occurs before the first `--`; a --help or -h after the separator
\* is part of the target argv.
C10_ServeHelpOnlyBeforeSeparator ==
    (command = "serve" /\ pc # "main") =>
        LET helpBefore == \E k \in 1..Len(restArgs) :
                              /\ restArgs[k] \in {FlagHelp, FlagH}
                              /\ \A j \in 1..k : restArgs[j] # Separator
            helpOnly == /\ pc = "exited"
                        /\ stdout = <<"showServeHelp">>
                        /\ exitCode = 0
                        /\ effects = {}
                        /\ parsed = [unknownFlags |-> <<>>]
        IN  /\ helpBefore <=> helpOnly
            /\ ~helpBefore =>
                   \A k \in 1..Len(restArgs) :
                       (/\ restArgs[k] \in {FlagHelp, FlagH}
                        /\ pc # "exited") =>
                           \E j \in 1..Len(parsed.serverArgs) :
                               /\ parsed.serverArgs[j] = restArgs[k]
                               /\ Len(parsed.serverArgs) - j = Len(restArgs) - k

\* C10 witness: `-- npx --help` went on into serve() with --help in the
\* target argv and nothing printed.
C10_Witness ==
    /\ command = "serve"
    /\ pc = "serveKey"
    /\ restArgs = <<Separator, TokNpx, FlagHelp>>
    /\ parsed.serverArgs = <<TokNpx, FlagHelp>>
    /\ stdout = <<>>

\* C11: in use mode, when the argument list holds --server-pubkey once,
\* followed by a value, and also a positional token (a token without a
\* leading dash that is not the value of a flag), before or after the flag,
\* then the parsed serverPubkey is the value of the flag.
C11_FlagBeatsPositional ==
    (pc = "parseUse" /\ i > Len(restArgs)) =>
        LET isValue(m) == /\ m > 1
                          /\ restArgs[m - 1] \in UseValueFlags
                          /\ ~StartsWith(restArgs[m], DashDash)
            positional(m) == ~StartsWith(restArgs[m], Dash) /\ ~isValue(m)
        IN  \A k \in 1..(Len(restArgs) - 1) :
                (/\ restArgs[k] = FlagServerPubkey
                 /\ \A m \in 1..Len(restArgs) : restArgs[m] = FlagServerPubkey => m = k
                 /\ ~StartsWith(restArgs[k + 1], DashDash)
                 /\ \E m \in 1..Len(restArgs) : positional(m))
                    => parsed.serverPubkey = Some(restArgs[k + 1])

\* C11 witness: the positional token comes first and the flag's value is
\* selected all the same.
C11_Witness ==
    /\ pc = "parseUse"
    /\ i > Len(restArgs)
    /\ restArgs = <<TokNpx, FlagServerPubkey, TokRelayList>>
    /\ parsed.serverPubkey = Some(TokRelayList)
    /\ parsed.unknownFlags = <<>>

\* C12 (as claimed): in use mode without --server-pubkey, serverPubkey is the
\* first token that has no leading dash and is not the value of a flag, later
\* such tokens being ignored; and every token with a leading dash that is not
\* a recognized flag is recorded in unknownFlags and is not the identifier.
C12_FirstPositionalAndEveryDashTokenUnknown ==
    (pc = "parseUse" /\ i > Len(restArgs) /\ ~Includes(restArgs, FlagServerPubkey)) =>
        LET isValue(m) == /\ m > 1
                          /\ restArgs[m - 1] \in UseValueFlags
                          /\ ~StartsWith(restArgs[m], DashDash)
            positionals == {m \in 1..Len(restArgs) :
                               ~StartsWith(restArgs[m], Dash) /\ ~isValue(m)}
        IN  /\ IF positionals = {} THEN parsed.serverPubkey = Undefined
               ELSE \E m \in positionals :
                        /\ \A n \in positionals : m <= n
                        /\ parsed.serverPubkey = Some(restArgs[m])
            /\ \A m \in 1..Len(restArgs) :
                   (StartsWith(restArgs[m], Dash) /\ restArgs[m] \notin UseRecognizedFlags)
                       => /\ Includes(parsed.unknownFlags, restArgs[m])
                          /\ parsed.serverPubkey # Some(restArgs[m])

\* C12 (amended): as above, the second part for every token with a leading
\* dash that is not a recognized flag and is not consumed as the value of
\* the value-taking flag right before it (a value may start with one dash).
C12_FirstPositionalAndDashTokensUnknownUnlessValue ==
    (pc = "parseUse" /\ i > Len(restArgs) /\ ~Includes(restArgs, FlagServerPubkey)) =>
        LET isValue(m) == /\ m > 1
                          /\ restArgs[m - 1] \in UseValueFlags
                          /\ ~StartsWith(restArgs[m], DashDash)
            positionals == {m \in 1..Len(restArgs) :
                               ~StartsWith(restArgs[m], Dash) /\ ~isValue(m)}
        IN  /\ IF positionals = {} THEN parsed.serverPubkey = Undefined
               ELSE \E m \in positionals :
                        /\ \A n \in positionals : m <= n
                        /\ parsed.serverPubkey = Some(restArgs[m])
            /\ \A m \in 1..Len(restArgs) :
                   (/\ StartsWith(restArgs[m], Dash)
                    /\ restArgs[m] \notin UseRecognizedFlags
                    /\ ~isValue(m))
                       => /\ Includes(parsed.unknownFlags, restArgs[m])
                          /\ parsed.serverPubkey # Some(restArgs[m])

\* C12 witness: a single-dash token, then two positional tokens; the first
\* positional is the identifier and the single-dash token is reported.
C12_Witness ==
    /\ pc = "parseUse"
    /\ i > Len(restArgs)
    /\ restArgs = <<TokY, TokNpx, TokRelayList>>
    /\ parsed.serverPubkey = Some(TokNpx)
    /\ parsed.unknownFlags = <<TokY>>

\* C13: loadConfig returns (no exit, no exception) whatever the state of the
\* three config files, and a file that is missing, cannot be read or is not
\* valid JSON contributes nothing: for every key the result is the value of
\* the highest-priority source among the CLI flags, the intact files and the
\* environment that sets it, and the key is absent when none does.
C13_BrokenFileIsEmptyTier ==
    pc \in {"loaded", "resolvedServe", "resolvedUse"} =>
        /\ exitCode = NoExit
        /\ \A ns \in {"serve", "use"} :
               LET intact(f) == f.exists /\ f.readable /\ f.valid
                   tier(f) == IF intact(f) THEN f.content[ns] ELSE Undefined
                   \* highest priority first
                   ranked == <<cliFlags[ns],
                               IF Truthy(customPath) THEN tier(files.custom) ELSE Undefined,
                               tier(files.project), tier(files.global),
                               loadConfigFromEnv(env)[ns]>>
                   sets(t, key) == /\ ranked[t] # Undefined
                                   /\ key \in DOMAIN ranked[t][1]
                                   /\ ranked[t][1][key] # Undefined
               IN  \A key \in NsKeys(ns) :
                       IF \E t \in 1..5 : sets(t, key)
                       THEN \E t \in 1..5 :
                                /\ sets(t, key)
                                /\ \A u \in 1..(t - 1) : ~sets(u, key)
                                /\ GetKey(config[ns], key) = ranked[t][1][key]
                       ELSE key \notin DOMAIN config[ns]

\* C13 witness: the project file sets the serve relays but is not valid
\* JSON, the global file is intact and sets them too, and loadConfig returns
\* the relays of the global file.
C13_Witness ==
    /\ pc = "loaded"
    /\ files.project.exists /\ files.project.readable /\ ~files.project.valid
    /\ files.project.content.serve # Undefined
    /\ GetKey(files.project.content.serve[1], "relays") = Some(<<>>)
    /\ files.global.valid
    /\ files.global.content.serve # Undefined
    /\ GetKey(files.global.content.serve[1], "relays") = Some(<< <<"r">> >>)
    /\ cliFlags.serve = Undefined
    /\ GetKey(config.serve, "relays") = Some(<< <<"r">> >>)

\* C14 (as claimed): after getServeConfig / getUseConfig the encryption policy
\* is one of optional, required and disabled, whichever source (CLI flag,
\* config file, environment variable) supplied the text, and it is optional
\* when no source supplied one.
C14_ResolvedEncryptionIsAMode ==
    pc \in {"resolvedServe", "resolvedUse"} =>
        LET ns == IF pc = "resolvedServe" THEN "serve" ELSE "use"
        IN  /\ resolved.encryption \in {Some(ModeOptional), Some(ModeRequired), Some(ModeDisabled)}
            /\ (GetKey(config[ns], "encryption") = Undefined)
                   => resolved.encryption = Some(ModeOptional)

\* C16: in the configuration getServeConfig / getUseConfig return, relays,
\* encryption and (serve) public are never absent; each holds the value of
\* the highest-priority source that set it, falsy values and the empty list
\* included, and the default (default relay list, optional, false) only when
\* no source set it.
C16_DefaultsFillOnlyAbsentFields ==
    pc \in {"resolvedServe", "resolvedUse"} =>
        LET ns == IF pc = "resolvedServe" THEN "serve" ELSE "use"
            custom == IF Truthy(customPath) THEN loadConfigFromFile(files.custom)
                      ELSE EmptyCvmiConfig
            ranked == <<cliFlags[ns], custom[ns], loadConfigFromFile(files.project)[ns],
                        loadConfigFromFile(files.global)[ns], loadConfigFromEnv(env)[ns]>>
            sets(t, key) == /\ ranked[t] # Undefined
                            /\ key \in DOMAIN ranked[t][1]
                            /\ ranked[t][1][key] # Undefined
            filled(key, default) ==
                /\ resolved[key] # Undefined
                /\ IF \E t \in 1..5 : sets(t, key)
                   THEN \E t \in 1..5 :
                            /\ sets(t, key)
                            /\ \A u \in 1..(t - 1) : ~sets(u, key)
                            /\ resolved[key] = ranked[t][1][key]
                   ELSE resolved[key] = Some(default)
        IN  /\ filled("relays", DEFAULT_RELAYS)
            /\ filled("encryption", DEFAULT_ENCRYPTION)
            /\ ns = "serve" => filled("public", FALSE)

\* C16 witness: the only source that sets the serve relays sets the empty
\* list, nothing sets encryption or public: the empty list is kept and the
\* two other fields hold their defaults.
C16_Witness ==
    /\ pc = "resolvedServe"
    /\ GetKey(config.serve, "relays") = Some(<<>>)
    /\ GetKey(config.serve, "encryption") = Undefined
    /\ GetKey(config.serve, "public") = Undefined
    /\ resolved.relays = Some(<<>>)
    /\ resolved.encryption = Some(DEFAULT_ENCRYPTION)
    /\ resolved.public = Some(FALSE)

\* C15: parseEncryptionMode returns for every text (the process goes on);
\* optional, required and disabled in any letter case give the matching mode
\* and no warning; any other non-empty text gives optional and exactly one
\* warning that names the text; no text or the empty text gives an absent
\* mode and no warning.
C15_ParseEncryptionMode ==
    pc = "parsedEncryptionMode" =>
        LET value == modeInput.value
        IN  /\ exitCode = NoExit
            /\ IF value = Undefined \/ value = Some(<<>>)
               THEN mode = Undefined /\ stderr = <<>>
               ELSE IF value[1] \in CaseVariants(StrOptional)
               THEN mode = Some(ModeOptional) /\ stderr = <<>>
               ELSE IF value[1] \in CaseVariants(StrRequired)
               THEN mode = Some(ModeRequired) /\ stderr = <<>>
               ELSE IF value[1] \in CaseVariants(StrDisabled)
               THEN mode = Some(ModeDisabled) /\ stderr = <<>>
               ELSE /\ mode = Some(ModeOptional)
                    /\ stderr = <<[value |-> value[1], context |-> modeInput.context]>>

\* C15 witness: a mode name in mixed case from the environment is accepted
\* without a warning.
C15_Witness ==
    /\ pc = "parsedEncryptionMode"
    /\ modeInput = [value |-> Some(StrRequiredCapital), context |-> EnvContext]
    /\ mode = Some(ModeRequired)
    /\ stderr = <<>>

\* C18: splitCommandString (a) at a whitespace character met outside quotes
\* ends the current token and skips the whole run of whitespace, so a run of
\* any length is one boundary; (b) at a whitespace character inside single
\* or double quotes adds it to the current token and ends nothing; (c) drops
\* the quote character that opens a region and the one that closes it;
\* (d) returns the empty sequence for an empty or whitespace-only input; and
\* (e) for an input without quotes and backslashes returns exactly its
\* maximal runs of non-whitespace characters, in order. (A whitespace
\* character that a backslash escapes is the subject of C19.)
C18_SplitsAtUnquotedWhitespace ==
    /\ [](pc = "splitReturned" =>
            LET text == scan.input
                n == Len(text)
                plain == \A k \in 1..n : text[k] \notin {SingleQuote, DoubleQuote, Backslash}
                blank(k) == text[k] \in WhitespaceChars
                starts == {k \in 1..n : ~blank(k) /\ (k = 1 \/ blank(k - 1))}
                ends == {k \in 1..n : ~blank(k) /\ (k = n \/ blank(k + 1))}
                nth(S, r) == CHOOSE k \in S : Cardinality({x \in S : x < k}) = r - 1
            IN  /\ (\A k \in 1..n : blank(k)) => scan.out = <<>>
                /\ plain =>
                       /\ Len(scan.out) = Cardinality(starts)
                       /\ \A r \in 1..Len(scan.out) :
                              scan.out[r] = SubSeq(text, nth(starts, r), nth(ends, r)))
    /\ [][(pc = "splitLoop" /\ scan.i <= Len(scan.s)) =>
            LET ch == scan.s[scan.i]
                kept == scan'.cur = scan.cur /\ scan'.out = scan.out /\ scan'.i = scan.i + 1
            IN  /\ (scan.quote = "null" /\ ch \in WhitespaceChars) =>
                       /\ scan'.out = IF scan.cur = <<>> THEN scan.out
                                      ELSE Append(scan.out, scan.cur)
                       /\ scan'.cur = <<>>
                       /\ scan'.quote = "null"
                       /\ scan'.i > scan.i
                       /\ \A k \in scan.i..(scan'.i - 1) : scan.s[k] \in WhitespaceChars
                       /\ scan'.i <= Len(scan.s) => scan.s[scan'.i] \notin WhitespaceChars
                /\ (scan.quote # "null" /\ ch \in WhitespaceChars) =>
                       /\ scan'.cur = Append(scan.cur, ch)
                       /\ scan'.out = scan.out
                       /\ scan'.quote = scan.quote
                       /\ scan'.i = scan.i + 1
                /\ (scan.quote = "null" /\ ch = SingleQuote) => kept /\ scan'.quote = "single"
                /\ (scan.quote = "null" /\ ch = DoubleQuote) => kept /\ scan'.quote = "double"
                /\ (scan.quote = "single" /\ ch = SingleQuote) => kept /\ scan'.quote = "null"
                /\ (scan.quote = "double" /\ ch = DoubleQuote) => kept /\ scan'.quote = "null"
         ]_vars

\* C18 witness: `a ' '` gives the two tokens `a` and ` `: the space outside
\* the quotes splits, the one inside is kept, the quotes are gone.
C18_Witness ==
    /\ pc = "splitReturned"
    /\ scan.input = <<"a", " ", SingleQuote, " ", SingleQuote>>
    /\ scan.out = << <<"a">>, <<" ">> >>

\* C19 (as claimed): for every input of splitCommandString,
\* (a) when the input has no quote that is not escaped, every backslash that is followed by a
\* character is dropped and that character, a space included, is an
\* ordinary character of the current token, and a backslash that ends the
\* input is a character of the last token: the result is the maximal runs
\* of the characters so read;
\* (b) a double-quoted input with one backslash, `"A\cB"`, gives the single
\* token AcB;
\* (c) a single-quoted input `'body'` gives the single token body, its
\* backslashes included;
\* (d) a backslash that ends the input, and is not itself escaped, is the
\* last character of the last token.
C19_BackslashEscapes ==
    pc = "splitReturned" =>
        LET text == scan.input
            n == Len(text)
            \* the input read as escape pairs: items[k] reads text from k on
            items[k \in 1..(n + 2)] ==
                IF k > n THEN <<>>
                ELSE IF text[k] = Backslash /\ k < n
                THEN <<[lit |-> TRUE, esc |-> TRUE, ch |-> text[k + 1]]>> \o items[k + 2]
                ELSE IF text[k] = Backslash
                THEN <<[lit |-> TRUE, esc |-> FALSE, ch |-> Backslash]>>
                ELSE <<[lit |-> text[k] \notin WhitespaceChars, esc |-> FALSE,
                        ch |-> text[k]]>> \o items[k + 1]
            read == items[1]
            m == Len(read)
            noQuotes == \A k \in 1..m :
                            read[k].ch \in {SingleQuote, DoubleQuote} => read[k].esc
            starts == {k \in 1..m : read[k].lit /\ (k = 1 \/ ~read[k - 1].lit)}
            ends == {k \in 1..m : read[k].lit /\ (k = m \/ ~read[k + 1].lit)}
            nth(S, r) == CHOOSE k \in S : Cardinality({x \in S : x < k}) = r - 1
            token(r) == [j \in 1..(nth(ends, r) - nth(starts, r) + 1) |->
                            read[nth(starts, r) + j - 1].ch]
            slashes == {k \in 1..n : text[k] = Backslash}
            body == SubSeq(text, 2, n - 1)
        IN  /\ noQuotes =>
                   /\ Len(scan.out) = Cardinality(starts)
                   /\ \A r \in 1..Len(scan.out) : scan.out[r] = token(r)
            /\ (/\ n >= 4
                /\ text[1] = DoubleQuote /\ text[n] = DoubleQuote
                /\ \A k \in 2..(n - 1) : text[k] \notin {DoubleQuote}
                /\ \E k \in 2..(n - 2) : slashes = {k}) =>
                   LET k == CHOOSE x \in slashes : TRUE
                   IN  scan.out = <<SubSeq(text, 2, k - 1) \o SubSeq(text, k + 1, n - 1)>>
            /\ (/\ n >= 3
                /\ text[1] = SingleQuote /\ text[n] = SingleQuote
                /\ \A k \in 2..(n - 1) : text[k] # SingleQuote) =>
                   scan.out = <<body>>
            /\ (/\ n >= 1
                /\ text[n] = Backslash
                /\ (n >= 2 => text[n - 1] # Backslash)) =>
                   /\ scan.out # <<>>
                   /\ scan.out[Len(scan.out)][Len(scan.out[Len(scan.out)])] = Backslash

\* C20 (as claimed): splitCommandString returns for an input whose last
\* quote is never closed (plain text, an opening quote, and then a non-empty
\* rest without that quote character and, after a double quote, without a
\* backslash), and the whole rest, whitespace included, is the end of the
\* last token.
C20_UnterminatedQuoteRunsToEnd ==
    pc = "splitReturned" =>
        LET text == scan.input
            n == Len(text)
            opens(q) ==
                /\ q < n
                /\ text[q] \in {SingleQuote, DoubleQuote}
                /\ \A k \in 1..(q - 1) : text[k] \notin {SingleQuote, DoubleQuote, Backslash}
                /\ \A k \in (q + 1)..n : text[k] # text[q]
                /\ text[q] = DoubleQuote => \A k \in (q + 1)..n : text[k] # Backslash
        IN  /\ exitCode = NoExit
            /\ \A q \in 1..n :
                   opens(q) =>
                       /\ scan.out # <<>>
                       /\ LET last == scan.out[Len(scan.out)]
                              rest == SubSeq(text, q + 1, n)
                          IN  /\ Len(last) >= Len(rest)
                              /\ SubSeq(last, Len(last) - Len(rest) + 1, Len(last)) = rest

\* C17 (as claimed): when serve is given positionals and the first one
\* contains whitespace, the stdio target of the gateway has the first token
\* of splitCommandString of that positional as executable and the remaining
\* tokens followed by the remaining positionals as arguments.
C17_QuotedCommandStringIsSplit ==
    (/\ command = "serve"
     /\ pc = "serveStart"
     /\ Len(parsed.serverArgs) > 0
     /\ \E k \in 1..Len(parsed.serverArgs[1]) : IsWhitespace(parsed.serverArgs[1][k])
     /\ gateway # Undefined
     /\ gateway[1].transport = "stdio") =>
        LET parts == splitCommandString(parsed.serverArgs[1])
        IN  /\ Len(parts) > 0
            /\ gateway[1].target = parts[1]
            /\ gateway[1].args = Tail(parts) \o Tail(parsed.serverArgs)
            /\ gateway[1].target # parsed.serverArgs[1]

\* C21: splitCommandString only removes characters. When it has returned,
\* the concatenation of its tokens is a subsequence of the input, and the
\* characters of the input that are not whitespace, a quote or a backslash
\* (shell metacharacters such as $ among them) are all in the tokens, in
\* order and unchanged; and a step that reads $ appends exactly $ to the
\* current token.
C21_OnlyRemovesCharacters ==
    /\ [](pc = "splitReturned" =>
            LET text == scan.input
                n == Len(text)
                flatten[k \in 0..Len(scan.out)] ==
                    IF k = 0 THEN <<>> ELSE flatten[k - 1] \o scan.out[k]
                flat == flatten[Len(scan.out)]
                \* place[j]: the earliest position of the input that can stand
                \* for flat[j] after place[j - 1]; n + 1 when there is none
                place[j \in 0..Len(flat)] ==
                    IF j = 0 THEN 0
                    ELSE LET later == {k \in (place[j - 1] + 1)..n : text[k] = flat[j]}
                         IN  IF later = {} THEN n + 1
                             ELSE CHOOSE k \in later : \A x \in later : k <= x
                Ordinary(c) == c \notin (WhitespaceChars \cup {SingleQuote, DoubleQuote, Backslash})
            IN  /\ place[Len(flat)] <= n
                /\ SelectSeq(flat, Ordinary) = SelectSeq(text, Ordinary))
    /\ [][(pc = "splitLoop" /\ scan.i <= Len(scan.s) /\ scan.s[scan.i] = "$") =>
              scan'.cur = Append(scan.cur, "$")]_vars

\* C21 witness: the input `$ \$` has returned the tokens `$` and `$`: the
\* metacharacter is copied, the space and the escaping backslash are removed.
C21_Witness ==
    /\ pc = "splitReturned"
    /\ scan.input = <<"$", " ", Backslash, "$">>
    /\ scan.out = << <<"$">>, <<"$">> >>

\* C22: when normalizeCommandAndArgs has returned, and the command contains
\* whitespace and splitCommandString gives it at least one token, the
\* result's command is the first token and its args are the other tokens
\* followed by the given args; and when the command contains no whitespace
\* the result is the given pair.
C22_NormalizeCommandAndArgs ==
    pc = "normalized" =>
        LET parts == splitCommandString(norm.command)
            hasWhitespace == \E k \in 1..Len(norm.command) : norm.command[k] \in WhitespaceChars
            result == norm.result[1]
        IN  /\ norm.result # Undefined
            /\ (hasWhitespace /\ Len(parts) >= 1) =>
                   /\ result.command = parts[1]
                   /\ result.args = Tail(parts) \o norm.args
            /\ ~hasWhitespace =>
                   /\ result.command = norm.command
                   /\ result.args = norm.args

\* C22 witness: the command `a $ a` with the args [-y, npx] has given the
\* command a and the args [$, a, -y, npx].
C22_Witness ==
    /\ pc = "normalized"
    /\ norm.command = <<"a", " ", "$", " ", "a">>
    /\ norm.args = <<TokY, TokNpx>>
    /\ norm.result = Some([command |-> <<"a">>, args |-> << <<"$">>, <<"a">>, TokY, TokNpx >>])

\* C23: once the configuration is loaded, a serve run without positionals
\* whose merged configuration has neither url nor command, and a use run
\* without a server identifier on the command line or in its merged
\* configuration, goes nowhere but to the exit with status 1 right after
\* the usage text, with no private key generated and no gateway or proxy
\* created; and no key is generated and nothing is created before the
\* target or the identifier has been looked at.
C23_UsageExitBeforeSideEffects ==
    LET noTarget ==
            /\ command = "serve"
            /\ Len(parsed.serverArgs) = 0
            /\ ~Truthy(GetKey(config.serve, "url"))
            /\ ~Truthy(GetKey(config.serve, "command"))
        noServerPubkey ==
            /\ command = "use"
            /\ ~Truthy(parsed.serverPubkey)
            /\ ~Truthy(GetKey(config.use, "serverPubkey"))
        nothingDone ==
            /\ "generatePrivateKey" \notin effects
            /\ gateway = Undefined
            /\ proxy = Undefined
    IN  /\ pc \in {"serveTarget", "useServerPubkey"} => nothingDone
        /\ ("loadConfig" \in effects /\ pc \notin {"serveTarget", "useServerPubkey"}
                /\ (noTarget \/ noServerPubkey)) =>
               /\ pc = "exited"
               /\ exitCode = 1
               /\ stdout # <<>>
               /\ stdout[Len(stdout)] = (IF command = "serve" THEN "showServeHelp"
                                          ELSE "showUseHelp")
               /\ nothingDone

\* C23 witness: serve --verbose, with CVMI_SERVE_PUBLIC set and no config
\* file, has printed the usage text and exited with status 1.
C23_Witness ==
    /\ command = "serve"
    /\ pc = "exited"
    /\ restArgs = <<FlagVerbose>>
    /\ "loadConfig" \in effects
    /\ env # EmptyEnv
    /\ GetKey(config.serve, "command") = Undefined
    /\ exitCode = 1
    /\ stdout = <<"showServeHelp">>
    /\ "generatePrivateKey" \notin effects
    /\ gateway = Undefined

\* C24: a gateway that serve has created is either for an http(s) URL, and
\* then serve had no target arguments, or for a command that is not an
\* http(s) URL, with the target arguments; and when serve comes to create
\* the gateway with an http(s) URL as target and target arguments present,
\* it reports an error and exits with status 1, and no gateway is created.
C24_UrlNeverWithArguments ==
    /\ [](gateway # Undefined =>
            /\ target # Undefined
            /\ gateway[1].target = target[1]
            /\ IF isHttpUrl(target[1])
               THEN /\ gateway[1].transport = "http"
                    /\ gateway[1].args = <<>>
                    /\ targetArgs = <<>>
               ELSE /\ gateway[1].transport = "stdio"
                    /\ gateway[1].args = targetArgs)
    /\ [][(pc = "serveGateway" /\ isHttpUrl(target[1]) /\ Len(targetArgs) > 0) =>
              /\ pc' = "exited"
              /\ exitCode' = 1
              /\ stdout' = Append(stdout, "error")
              /\ gateway' = Undefined]_vars

\* C24 witness: serve http://h npx has exited with status 1 after the error
\* message, without a gateway.
C24_Witness ==
    /\ command = "serve"
    /\ restArgs = <<TokUrl, TokNpx>>
    /\ pc = "exited"
    /\ target = Some(TokUrl)
    /\ targetArgs = <<TokNpx>>
    /\ exitCode = 1
    /\ stdout # <<>>
    /\ stdout[Len(stdout)] = "error"
    /\ gateway = Undefined

\* C25 (as claimed): once serve has resolved its target, with positionals
\* the target is the first positional and its arguments are the remaining
\* positionals; without positionals the target is the url of the merged
\* configuration when it has one, and otherwise its command with its args.
C25_PositionalsReplaceConfiguredTarget ==
    (/\ command = "serve"
     /\ "loadConfig" \in effects
     /\ pc # "serveTarget") =>
        IF Len(parsed.serverArgs) > 0
        THEN /\ target = Some(parsed.serverArgs[1])
             /\ targetArgs = Tail(parsed.serverArgs)
        ELSE IF Truthy(GetKey(config.serve, "url"))
        THEN target = GetKey(config.serve, "url")
        ELSE /\ target = GetKey(config.serve, "command")
             /\ targetArgs = Coalesce(GetKey(config.serve, "args"), Some(<<>>))[1]

\* C28: the relay list a gateway or a proxy was created with is never the
\* empty list: it is the resolved relay list when that list has at least
\* one relay, and the default relay list when the resolved list is absent
\* or empty.
C28_RelayListNeverEmpty ==
    LET handed(relays) ==
            /\ Len(relays) > 0
            /\ relays = (IF resolved.relays # Undefined /\ resolved.relays[1] # <<>>
                         THEN resolved.relays[1] ELSE DEFAULT_RELAYS)
    IN  /\ gateway # Undefined => handed(gateway[1].relayHandler)
        /\ proxy # Undefined => handed(proxy[1].relayHandler)

\* C28 witness: use pk with a project file that sets relays to the empty
\* list has created the proxy with the default relay list.
C28_Witness ==
    /\ command = "use"
    /\ pc = "useStart"
    /\ files.project = FileA
    /\ GetKey(config.use, "relays") = Some(<<>>)
    /\ resolved.relays = Some(<<>>)
    /\ proxy # Undefined
    /\ proxy[1].relayHandler = DEFAULT_RELAYS

\* C26: every token splitCommandString has returned is a non-empty string;
\* and for an input without backslashes whose quote characters all belong
\* to empty quoted regions ('' or "") standing alone between whitespace or
\* the ends of the input, the tokens are the runs of the other
\* non-whitespace characters: the empty regions give no token.
C26_TokensAreNonEmpty ==
    pc = "splitReturned" =>
        LET text == scan.input
            n == Len(text)
            Quotes == {SingleQuote, DoubleQuote}
            emptyRegionAt(k) ==
                /\ k >= 1 /\ k < n
                /\ text[k] \in Quotes
                /\ text[k + 1] = text[k]
                /\ (k = 1 \/ text[k - 1] \in WhitespaceChars)
                /\ (k + 1 = n \/ text[k + 2] \in WhitespaceChars)
            onlyEmptyRegions ==
                /\ \A k \in 1..n : text[k] # Backslash
                /\ \A k \in 1..n : text[k] \in Quotes =>
                       emptyRegionAt(k) \/ emptyRegionAt(k - 1)
            plain(k) == text[k] \notin (WhitespaceChars \cup Quotes)
            starts == {k \in 1..n : plain(k) /\ (k = 1 \/ ~plain(k - 1))}
            ends == {k \in 1..n : plain(k) /\ (k = n \/ ~plain(k + 1))}
            nth(S, r) == CHOOSE k \in S : Cardinality({x \in S : x < k}) = r - 1
        IN  /\ \A r \in 1..Len(scan.out) : Len(scan.out[r]) > 0
            /\ onlyEmptyRegions =>
                   /\ Len(scan.out) = Cardinality(starts)
                   /\ \A r \in 1..Len(scan.out) :
                          scan.out[r] = SubSeq(text, nth(starts, r), nth(ends, r))

\* C26 witness: the input `a ""` followed by a space has returned the one
\* token a.
C26_Witness ==
    /\ pc = "splitReturned"
    /\ scan.input = <<"a", " ", DoubleQuote, DoubleQuote, " ">>
    /\ scan.out = << <<"a">> >>

\* C27 (as claimed): loadConfig returns, without raising, whatever the three
\* config files hold, the JSON value null as whole text or as serve or use
\* member included; the result is the merge of the command-line flags, the
\* files and the environment in which a null contributes nothing.
C27_NullContentContributesNothing ==
    pc # "loadConfig" =>
        /\ pc # "loadConfigThrew"
        /\ config = loadConfig(cliFlags, customPath, env, files)

\* C29: in serve() and use() with waitForShutdownSignal, the signal that
\* arrives once the gateway or proxy has started makes stop() be called in
\* the same turn; stop() is never called more than once, whatever signals
\* follow; and the process has exit status 0 only when stop() has completed.
C29_StopOnceThenExitZero ==
    /\ [](shutdown.handler = "waitForShutdownSignal" =>
            /\ shutdown.stopCalls <= 1
            /\ (shutdown.stopCalls = 0) <=> (pc = "waiting")
            /\ exitCode = 0 => shutdown.stopsDone = 1 /\ shutdown.stopCalls = 1)
    /\ [][(pc = "waiting" /\ shutdown'.signals # shutdown.signals) =>
              /\ shutdown.signals = <<>>
              /\ shutdown'.stopCalls = 1
              /\ pc' = "stopping"]_vars

\* C29 witness: serve has taken SIGINT, then SIGTERM while stop() was
\* pending, and has exited with status 0 after the one stop() completed.
C29_Witness ==
    /\ command = "serve"
    /\ shutdown.handler = "waitForShutdownSignal"
    /\ shutdown.signals = <<"SIGINT", "SIGTERM">>
    /\ shutdown.stopCalls = 1
    /\ shutdown.stopsDone = 1
    /\ pc = "exited"
    /\ exitCode = 0

\* C30 (as claimed): with setupShutdownHandler installed, cleanupFn is never
\* invoked more than once, whatever signals are delivered, and the process
\* has exit status 0 only when an invocation has completed.
C30_CleanupAtMostOnce ==
    shutdown.handler = "setupShutdownHandler" =>
        /\ shutdown.stopCalls <= 1
        /\ exitCode = 0 => shutdown.stopsDone >= 1

====
